---- MODULE Spec2Model ----
(***************************************************************************)
(* A model of patent-vis: the text autofit engine (mpl_extra/autofit.py),  *)
(* the earlier label-fitting draft (mpl/extension) and the hierarchical    *)
(* squarified treemap layout (mpl_extra/treemap.py).                       *)
(*                                                                         *)
(* Real numbers are modelled as exact fractions <<n, d>> with d > 0 in     *)
(* lowest terms, so that two equal numbers are equal values.               *)
(***************************************************************************)
EXTENDS Integers, Sequences, FiniteSets, TLC

(***************************************************************************)
(* Exact arithmetic on fractions.                                          *)
(***************************************************************************)
Abs(i) == IF i < 0 THEN -i ELSE i

RECURSIVE Gcd(_, _)
Gcd(a, b) == IF b = 0 THEN a ELSE Gcd(b, a % b)

Frac(n, d) ==
    LET g == Gcd(Abs(n), Abs(d))
        s == IF d < 0 THEN -1 ELSE 1
    IN  <<(s * n) \div g, (s * d) \div g>>

OfInt(i) == <<i, 1>>
Zero == OfInt(0)
One == OfInt(1)

RAdd(a, b) == Frac(a[1] * b[2] + b[1] * a[2], a[2] * b[2])
RSub(a, b) == Frac(a[1] * b[2] - b[1] * a[2], a[2] * b[2])
RMul(a, b) == Frac(a[1] * b[1], a[2] * b[2])
RDiv(a, b) == Frac(a[1] * b[2], a[2] * b[1])
RNeg(a) == <<-a[1], a[2]>>
RLt(a, b) == a[1] * b[2] < b[1] * a[2]
RLe(a, b) == a[1] * b[2] <= b[1] * a[2]
RAbs(a) == <<Abs(a[1]), a[2]>>
RMin(a, b) == IF RLe(a, b) THEN a ELSE b
RMax(a, b) == IF RLe(b, a) THEN a ELSE b
IsZero(a) == a[1] = 0

RECURSIVE RSum(_)
RSum(s) == IF s = <<>> THEN Zero ELSE RAdd(Head(s), RSum(Tail(s)))

\* Python's min(seq) and max(seq): the first of the smallest (largest) items.
RECURSIVE RMinSeq(_)
RMinSeq(s) ==
    IF Len(s) = 1 THEN s[1]
    ELSE LET m == RMinSeq(Tail(s)) IN IF RLe(s[1], m) THEN s[1] ELSE m

RECURSIVE RMaxSeq(_)
RMaxSeq(s) ==
    IF Len(s) = 1 THEN s[1]
    ELSE LET m == RMaxSeq(Tail(s)) IN IF RLe(m, s[1]) THEN s[1] ELSE m

IMax(a, b) == IF a >= b THEN a ELSE b

(***************************************************************************)
(* Text.  A string is a sequence of one-character strings.                 *)
(***************************************************************************)
Lower == {"a", "b", "c", "d", "e", "i", "l", "o", "r"}
Upper == {"H", "W"}
Digit == {"1", "2"}
Cjk == {"Z"}            \* stands for one character of 一-﫿
Apostrophe == {"'"}
Space == {" ", "\n"}
Punct == {",", "!"}
Letter == Lower \cup Upper

RECURSIVE TakeWhile(_, _)
\* the longest prefix of s made of characters of class cls
TakeWhile(s, cls) ==
    IF s = <<>> \/ Head(s) \notin cls THEN <<>>
    ELSE <<Head(s)>> \o TakeWhile(Tail(s), cls)

Drop(s, k) == SubSeq(s, k + 1, Len(s))

RECURSIVE split_words(_)
\* re.findall(r"[一-﫿]|[0-9]+|[a-zA-Z]+\'*[a-z]*", txt)
split_words(txt) ==
    IF txt = <<>> THEN <<>>
    ELSE IF Head(txt) \in Cjk THEN <<<<Head(txt)>>>> \o split_words(Tail(txt))
    ELSE IF Head(txt) \in Digit THEN
        LET w == TakeWhile(txt, Digit)
        IN  <<w>> \o split_words(Drop(txt, Len(w)))
    ELSE IF Head(txt) \in Letter THEN
        LET l == TakeWhile(txt, Letter)
            a == TakeWhile(Drop(txt, Len(l)), Apostrophe)
            t == TakeWhile(Drop(txt, Len(l) + Len(a)), Lower)
            w == l \o a \o t
        IN  <<w>> \o split_words(Drop(txt, Len(w)))
    ELSE split_words(Tail(txt))

RECURSIVE MaxLen(_)
\* max(map(len, words))
MaxLen(words) ==
    IF Len(words) = 1 THEN Len(words[1])
    ELSE IMax(Len(words[1]), MaxLen(Tail(words)))

RECURSIVE Concat(_)
\* ''.join(chunks)
Concat(chunks) ==
    IF chunks = <<>> THEN <<>> ELSE Head(chunks) \o Concat(Tail(chunks))

RECURSIVE JoinLines(_)
\* '\n'.join(lines)
JoinLines(lines) ==
    IF Len(lines) = 0 THEN <<>>
    ELSE IF Len(lines) = 1 THEN lines[1]
    ELSE lines[1] \o <<"\n">> \o JoinLines(Tail(lines))

IsBlank(chunk) == \A i \in 1..Len(chunk) : chunk[i] \in Space

RECURSIVE Chunks(_)
\* TextWrapper._split for text without hyphens: the maximal runs of
\* whitespace and of other characters, whitespace replaced by blanks
Chunks(txt) ==
    IF txt = <<>> THEN <<>>
    ELSE IF Head(txt) \in Space THEN
        LET w == TakeWhile(txt, Space)
        IN  <<[i \in 1..Len(w) |-> " "]>> \o Chunks(Drop(txt, Len(w)))
    ELSE
        LET w == TakeWhile(txt, Lower \cup Upper \cup Digit \cup Cjk \cup Apostrophe \cup Punct)
        IN  <<w>> \o Chunks(Drop(txt, Len(w)))

RECURSIVE FillLine(_, _, _, _)
\* the inner loop of TextWrapper._wrap_chunks: move chunks to the line while
\* they fit; the result is <<line chunks, remaining chunks>>
FillLine(chunks, cur_line, cur_len, width) ==
    IF chunks # <<>> /\ cur_len + Len(Head(chunks)) <= width
    THEN FillLine(Tail(chunks), Append(cur_line, Head(chunks)),
                  cur_len + Len(Head(chunks)), width)
    ELSE <<cur_line, chunks>>

RECURSIVE WrapChunks(_, _, _)
\* TextWrapper._wrap_chunks with the default options (width >= 1)
WrapChunks(chunks, lines, width) ==
    IF chunks = <<>> THEN lines
    ELSE
        LET c0 == IF IsBlank(Head(chunks)) /\ lines # <<>> THEN Tail(chunks) ELSE chunks
            f == FillLine(c0, <<>>, 0, width)
            cur_len == Len(Concat(f[1]))
            long == f[2] # <<>> /\ Len(Head(f[2])) > width
            \* _handle_long_word: break the chunk at the space left
            space_left == width - cur_len
            line1 == IF long THEN Append(f[1], SubSeq(Head(f[2]), 1, space_left)) ELSE f[1]
            rest1 == IF long THEN <<Drop(Head(f[2]), space_left)>> \o Tail(f[2]) ELSE f[2]
            line2 == IF line1 # <<>> /\ IsBlank(line1[Len(line1)])
                     THEN SubSeq(line1, 1, Len(line1) - 1) ELSE line1
        IN  WrapChunks(rest1, IF line2 # <<>> THEN Append(lines, Concat(line2)) ELSE lines, width)

\* textwrap.wrap(txt, width)
textwrap_wrap(txt, width) == WrapChunks(Chunks(txt), <<>>, width)

RECURSIVE SplitLines(_)
\* txt.split('\n')
SplitLines(txt) ==
    LET l == TakeWhile(txt, Lower \cup Upper \cup Digit \cup Cjk \cup Apostrophe \cup Punct \cup {" "})
    IN  IF Len(l) = Len(txt) THEN <<l>>
        ELSE <<l>> \o SplitLines(Drop(txt, Len(l) + 1))

(***************************************************************************)
(* The host renderer.  Glyph metrics scale linearly with the font size:    *)
(* a glyph advances CharUnits font units, a font unit is fontprops.adv em  *)
(* wide and a line is fontprops.h em high; one point is dpi / 72 pixels.   *)
(***************************************************************************)
PointsPerInch == 72

CharUnits(c) == IF c \in Upper \cup Cjk THEN 2 ELSE 1

RECURSIVE Units(_)
Units(line) == IF line = <<>> THEN 0 ELSE CharUnits(Head(line)) + Units(Tail(line))

\* font.set_size(size, dpi); font.set_text(line); font.get_width_height()[0] / 64
LineWidth(line, size, dpi, fontprops) ==
    RMul(RMul(size, Frac(dpi, PointsPerInch)), RMul(OfInt(Units(line)), fontprops.adv))

RECURSIVE WidestLine(_, _, _, _)
WidestLine(lines, size, dpi, fontprops) ==
    IF Len(lines) = 1 THEN LineWidth(lines[1], size, dpi, fontprops)
    ELSE RMax(LineWidth(lines[1], size, dpi, fontprops),
              WidestLine(Tail(lines), size, dpi, fontprops))

\* the height of n lines stacked with the line spacing, in pixels
StackHeight(n, size, linespacing, dpi, fontprops) ==
    RMul(RMul(RMul(size, Frac(dpi, PointsPerInch)), fontprops.h),
         RAdd(One, RMul(OfInt(n - 1), linespacing)))

\* cosine and sine of the one rotation of the model that is not axis-aligned
SkewCos == Frac(4, 5)
SkewSin == Frac(3, 5)

\* txtobj.get_window_extent(render): the bounding box of the rotated text
get_window_extent(text, size, rotation, linespacing, dpi, fontprops) ==
    LET lines == SplitLines(text)
        w == WidestLine(lines, size, dpi, fontprops)
        h == StackHeight(Len(lines), size, linespacing, dpi, fontprops)
    IN  IF rotation % 180 = 0 THEN [width |-> w, height |-> h]
        ELSE IF rotation % 90 = 0 THEN [width |-> h, height |-> w]
        ELSE [width |-> RAdd(RMul(w, SkewCos), RMul(h, SkewSin)),
              height |-> RAdd(RMul(w, SkewSin), RMul(h, SkewCos))]

\* transform.transform((x, y)) of an affine transform
TransformPoint(T, p) ==
    <<RAdd(RAdd(RMul(T.a, p[1]), RMul(T.c, p[2])), T.tx),
      RAdd(RAdd(RMul(T.b, p[1]), RMul(T.d, p[2])), T.ty)>>

(***************************************************************************)
(* mpl_extra/autofit.py                                                    *)
(***************************************************************************)
\* a slip: the transformed point, not the displacement from the origin
dist2pixels_Absolute(transform, params) ==
    LET end_point == TransformPoint(transform, <<params[1], params[2]>>)
    IN  <<end_point[1], end_point[2]>>

RECURSIVE dist2pixels(_, _)
\* the distances are taken two by two as (dx, dy); a last single one as (dx, 0)
dist2pixels(transform, params) ==
    LET start_point == TransformPoint(transform, <<Zero, Zero>>)
    IN  IF params = <<>> THEN <<>>
        ELSE IF Len(params) = 1 THEN
            LET end_point == TransformPoint(transform, <<params[1], Zero>>)
            IN  <<RSub(end_point[1], start_point[1])>>
        ELSE
            LET end_point == TransformPoint(transform, <<params[1], params[2]>>)
            IN  <<RSub(end_point[1], start_point[1]), RSub(end_point[2], start_point[2])>>
                \o dist2pixels(transform, Drop(params, 2))

\* the determinant of the matrix of an affine transform
Det(T) == RSub(RMul(T.a, T.d), RMul(T.b, T.c))

\* transform.inverted(): the inverse affine transform; a singular matrix
\* has none (numpy raises LinAlgError)
inverted(T) ==
    LET a == RDiv(T.d, Det(T))
        b == RNeg(RDiv(T.b, Det(T)))
        c == RNeg(RDiv(T.c, Det(T)))
        d == RDiv(T.a, Det(T))
    IN  [a |-> a, b |-> b, c |-> c, d |-> d,
         tx |-> RNeg(RAdd(RMul(a, T.tx), RMul(c, T.ty))),
         ty |-> RNeg(RAdd(RMul(b, T.tx), RMul(d, T.ty)))]

\* pixels2dist, line 365
pixels2dist(transform, params) == dist2pixels(inverted(transform), params)

pixels2points(dpi, pixels) ==
    LET inch_per_point == Frac(1, PointsPerInch)
    IN  RDiv(RDiv(pixels, OfInt(dpi)), inch_per_point)

\* a slip: every line takes the line spacing, the last one too
calc_fontsize_from_height_PerLine(height, n, linespacing, dpi) ==
    pixels2points(dpi, RDiv(height, RMul(OfInt(n), linespacing)))

calc_fontsize_from_height(height, n, linespacing, dpi) ==
    LET h_pixels == RDiv(height, RAdd(RSub(RMul(OfInt(n), linespacing), linespacing), One))
    IN  pixels2points(dpi, h_pixels)

calc_fontsize_from_width(lines, width, dpi, fontprops) ==
    LET fontsizes == [i \in 1..Len(lines) |->
            RDiv(RMul(fontprops.size, width),
                 LineWidth(lines[i], fontprops.size, dpi, fontprops))]
    IN  RMinSeq(fontsizes)

get_line_gap_from_boxedge(lines, fontsize, width, dpi, fontprops) ==
    LET gaps == [i \in 1..Len(lines) |->
            RAbs(RSub(LineWidth(lines[i], fontsize, dpi, fontprops), width))]
    IN  RMinSeq(gaps)

get_wrapped_fontsize(txt, height, width, n, linespacing, dpi, fontprops) ==
    LET words == split_words(txt)
        min_length == MaxLen(words)
        wrap_length == IMax(min_length, Len(txt) \div n)
        wrap_txt == textwrap_wrap(txt, wrap_length)
        w_fontsize == calc_fontsize_from_width(wrap_txt, width, dpi, fontprops)
        h_fontsize == calc_fontsize_from_height(height, Len(wrap_txt), linespacing, dpi)
        adjusted_fontsize == RMin(h_fontsize, w_fontsize)
        delta_w == get_line_gap_from_boxedge(wrap_txt, adjusted_fontsize, width, dpi, fontprops)
    IN  [n |-> n, size |-> RMin(h_fontsize, w_fontsize), lines |-> wrap_txt, gap |-> delta_w]

RECURSIVE MaxBySize_Last(_)
\* a slip: on a tie the later candidate wins
MaxBySize_Last(fontsizes) ==
    IF Len(fontsizes) = 1 THEN fontsizes[1]
    ELSE LET m == MaxBySize_Last(Tail(fontsizes))
         IN  IF RLt(m.size, fontsizes[1].size) THEN fontsizes[1] ELSE m

RECURSIVE MaxBySize(_)
\* max(fontsizes, key=lambda x: x[0]): the first candidate of the largest size
MaxBySize(fontsizes) ==
    IF Len(fontsizes) = 1 THEN fontsizes[1]
    ELSE LET m == MaxBySize(Tail(fontsizes))
         IN  IF RLe(m.size, fontsizes[1].size) THEN fontsizes[1] ELSE m

RECURSIVE MinByGap(_)
\* min(fontsizes, key=lambda x: x[2]): the first candidate of the smallest gap
MinByGap(fontsizes) ==
    IF Len(fontsizes) = 1 THEN fontsizes[1]
    ELSE LET m == MinByGap(Tail(fontsizes))
         IN  IF RLe(fontsizes[1].gap, m.gap) THEN fontsizes[1] ELSE m

NoCandidate == [n |-> 0, size |-> Zero, lines |-> <<>>, gap |-> Zero]

\* a slip: the search starts at one line and stops a line early
Candidates_FromOne(txt, height, width, linespacing, dpi, fontprops) ==
    LET words == split_words(txt)
    IN  [i \in 1..(Len(words) - 1) |->
            get_wrapped_fontsize(txt, height, width, i, linespacing, dpi, fontprops)]

\* the candidates of line 73-78, for line_num in range(2, len(words) + 1)
Candidates(txt, height, width, linespacing, dpi, fontprops) ==
    LET words == split_words(txt)
    IN  [i \in 1..(Len(words) - 1) |->
            get_wrapped_fontsize(txt, height, width, i + 1, linespacing, dpi, fontprops)]

\* a slip: only the width is fitted
NoWrapFontsize_WidthOnly(fontsize, width_in_pixels, height_in_pixels, bbox) ==
    RDiv(RMul(fontsize, width_in_pixels), bbox.width)

\* a slip: the larger of the two ratios
NoWrapFontsize_Max(fontsize, width_in_pixels, height_in_pixels, bbox) ==
    RMax(RDiv(RMul(fontsize, width_in_pixels), bbox.width),
         RDiv(RMul(fontsize, height_in_pixels), bbox.height))

\* line 66-67: the size at which the unwrapped text fills the box
NoWrapFontsize(fontsize, width_in_pixels, height_in_pixels, bbox) ==
    RMin(RDiv(RMul(fontsize, width_in_pixels), bbox.width),
         RDiv(RMul(fontsize, height_in_pixels), bbox.height))

\* line 81-85: the candidate that grow selects
SelectCandidate(fontsizes, grow) ==
    IF grow THEN MaxBySize(fontsizes) ELSE MinByGap(fontsizes)

\* a slip: the wrapped candidate always replaces the unwrapped fit
PreferWrapped_Always(adjusted_fontsize, adjusted_size) == TRUE

\* line 87: the wrapped candidate replaces the unwrapped fit
PreferWrapped(adjusted_fontsize, adjusted_size) == RLt(adjusted_fontsize, adjusted_size)

Raised(txtobj, e) ==
    [pc |-> "raised", err |-> e, text |-> txtobj.text, fontsize |-> txtobj.fontsize,
     chosen |-> NoCandidate, rect |-> <<>>]

\* a slip: only the width is checked
InvalidBox_WidthOnly(width, height) == RLt(width, Zero)

\* line 47: the box is rejected
InvalidBox(width, height) == RLt(width, Zero) \/ RLt(height, Zero)

\* a slip: vertical text is rejected too
UnsupportedRotation_HorizontalOnly(wrap, rotation) == wrap /\ rotation % 180 # 0

\* line 50: wrapping is rejected for this rotation
UnsupportedRotation(wrap, rotation) == wrap /\ rotation % 90 # 0

\* the outcome of text_with_autofit(txtobj, width, height, wrap=, grow=,
\* transform=, show_rect=): what it raises, or the text it leaves and the
\* outline it adds
text_with_autofit(txtobj, width, height, wrap, grow, transform, show_rect) ==
    IF InvalidBox(width, height) THEN Raised(txtobj, "InvalidBox")
    ELSE IF UnsupportedRotation(wrap, txtobj.rotation) THEN Raised(txtobj, "UnsupportedRotation")
    ELSE
        LET px == dist2pixels(transform, <<width, height>>)
            width_in_pixels == px[1]
            height_in_pixels == px[2]
            fontsize == txtobj.fontsize
            dpi == txtobj.dpi
            original_txt == txtobj.text
            fontprops == [adv |-> txtobj.font.adv, h |-> txtobj.font.h, size |-> fontsize]
            bbox == get_window_extent(original_txt, fontsize, txtobj.rotation,
                                      txtobj.linespacing, dpi, fontprops)
            adjusted_fontsize == NoWrapFontsize(fontsize, width_in_pixels, height_in_pixels, bbox)
            fontsizes == Candidates(original_txt, height_in_pixels, width_in_pixels,
                                    txtobj.linespacing, dpi, fontprops)
            sel == SelectCandidate(fontsizes, grow)
            rect == IF show_rect THEN <<[width |-> width, height |-> height]>> ELSE <<>>
        IN  IF ~wrap THEN
                [pc |-> "returned", err |-> "none", text |-> original_txt,
                 fontsize |-> adjusted_fontsize, chosen |-> NoCandidate, rect |-> rect]
            ELSE IF Len(fontsizes) = 0 THEN Raised(txtobj, "EmptySequence")
            ELSE IF PreferWrapped(adjusted_fontsize, sel.size) THEN
                [pc |-> "returned", err |-> "none", text |-> JoinLines(sel.lines),
                 fontsize |-> sel.size, chosen |-> sel, rect |-> rect]
            ELSE
                [pc |-> "returned", err |-> "none", text |-> original_txt,
                 fontsize |-> adjusted_fontsize, chosen |-> sel, rect |-> rect]

(***************************************************************************)
(* Floating-point values of the layout.  Besides the fractions, a float is *)
(* +inf, -inf or nan: numpy divides by zero with a warning and returns     *)
(* one of the three, Python's own float division raises                    *)
(* ZeroDivisionError.                                                      *)
(***************************************************************************)
NaN == <<0, 0>>
PosInf == <<1, 0>>
NegInf == <<-1, 0>>

IsFinite(a) == a[2] # 0
Sgn(i) == IF i > 0 THEN 1 ELSE IF i < 0 THEN -1 ELSE 0

XNeg(a) == <<-a[1], a[2]>>

XAdd(a, b) ==
    IF a = NaN \/ b = NaN THEN NaN
    ELSE IF IsFinite(a) /\ IsFinite(b) THEN RAdd(a, b)
    ELSE IF IsFinite(a) THEN b
    ELSE IF IsFinite(b) THEN a
    ELSE IF a = b THEN a ELSE NaN

XSub(a, b) == XAdd(a, XNeg(b))

XMul(a, b) ==
    IF a = NaN \/ b = NaN THEN NaN
    ELSE IF IsFinite(a) /\ IsFinite(b) THEN RMul(a, b)
    ELSE IF Sgn(a[1]) * Sgn(b[1]) = 0 THEN NaN
    ELSE <<Sgn(a[1]) * Sgn(b[1]), 0>>

\* a / b of two Python floats, b not being zero
XDiv(a, b) ==
    IF a = NaN \/ b = NaN THEN NaN
    ELSE IF IsFinite(a) /\ IsFinite(b) THEN RDiv(a, b)
    ELSE IF IsFinite(a) THEN Zero
    ELSE IF IsFinite(b) THEN <<Sgn(a[1]) * Sgn(b[1]), 0>>
    ELSE NaN

\* a / b when b is a numpy scalar: a zero divisor gives inf or nan
NumpyDiv(a, b) ==
    IF b = Zero THEN (IF a = NaN THEN NaN ELSE <<Sgn(a[1]), 0>>)
    ELSE XDiv(a, b)

\* a >= b; every comparison with nan is false
XGe(a, b) ==
    IF a = NaN \/ b = NaN THEN FALSE
    ELSE IF ~IsFinite(a) /\ ~IsFinite(b) THEN a[1] >= b[1]
    ELSE a[1] * b[2] >= b[1] * a[2]

XGt(a, b) == XGe(a, b) /\ a # b

\* the builtin max of a list: the running best is replaced by a greater item
RECURSIVE XMaxFrom(_, _)
XMaxFrom(best, s) ==
    IF s = <<>> THEN best
    ELSE XMaxFrom(IF XGt(Head(s), best) THEN Head(s) ELSE best, Tail(s))

XMaxSeq(s) == XMaxFrom(Head(s), Tail(s))

RECURSIVE XSum(_, _)
\* the builtin sum: start + s[1] + s[2] + ...
XSum(start, s) == IF s = <<>> THEN start ELSE XSum(XAdd(start, Head(s)), Tail(s))

(***************************************************************************)
(* The squarify library the layout calls.  A rectangle is [x, y, dx, dy].  *)
(* A call returns [ok, rects]; ok is FALSE when it raises                  *)
(* ZeroDivisionError.                                                      *)
(***************************************************************************)
Rect(x, y, dx, dy) == [x |-> x, y |-> y, dx |-> dx, dy |-> dy]

\* squarify.pad_rectangle
pad_rectangle(rect) ==
    LET r1 == IF XGt(rect.dx, OfInt(2))
              THEN [rect EXCEPT !.x = XAdd(@, One), !.dx = XSub(@, OfInt(2))]
              ELSE rect
    IN  IF XGt(r1.dy, OfInt(2))
        THEN [r1 EXCEPT !.y = XAdd(@, One), !.dy = XSub(@, OfInt(2))]
        ELSE r1

RECURSIVE RowRects(_, _, _, _)
RowRects(sizes, x, y, width) ==
    IF sizes = <<>> THEN <<>>
    ELSE LET h == XDiv(Head(sizes), width)
         IN  <<Rect(x, y, width, h)>> \o RowRects(Tail(sizes), x, XAdd(y, h), width)

\* squarify.layoutrow: a column of rectangles at the left edge, full height
layoutrow(sizes, x, y, dx, dy) == RowRects(sizes, x, y, XDiv(XSum(Zero, sizes), dy))

RECURSIVE ColRects(_, _, _, _)
ColRects(sizes, x, y, height) ==
    IF sizes = <<>> THEN <<>>
    ELSE LET w == XDiv(Head(sizes), height)
         IN  <<Rect(x, y, w, height)>> \o ColRects(Tail(sizes), XAdd(x, w), y, height)

\* squarify.layoutcol: a row of rectangles at the bottom edge, full width
layoutcol(sizes, x, y, dx, dy) == ColRects(sizes, x, y, XDiv(XSum(Zero, sizes), dx))

\* squarify.layout
layout(sizes, x, y, dx, dy) ==
    IF XGe(dx, dy) THEN layoutrow(sizes, x, y, dx, dy) ELSE layoutcol(sizes, x, y, dx, dy)

\* layout divides the covered area by the short side, and every size by the
\* quotient: it raises when one of the two is zero
LayoutRaises(sizes, dx, dy) ==
    LET side == IF XGe(dx, dy) THEN dy ELSE dx
    IN  side = Zero \/ XDiv(XSum(Zero, sizes), side) = Zero

\* squarify.leftover: what layout(sizes) leaves of the rectangle
leftover(sizes, x, y, dx, dy) ==
    IF XGe(dx, dy)
    THEN LET width == XDiv(XSum(Zero, sizes), dy)
         IN  Rect(XAdd(x, width), y, XSub(dx, width), dy)
    ELSE LET height == XDiv(XSum(Zero, sizes), dx)
         IN  Rect(x, XAdd(y, height), dx, XSub(dy, height))

\* one of the rectangles has a side of length zero
HasFlat(rects) == \E i \in 1..Len(rects) : rects[i].dx = Zero \/ rects[i].dy = Zero

\* squarify.worst_ratio divides the two sides of every rectangle by each other
WorstRatioRaises(sizes, x, y, dx, dy) ==
    LayoutRaises(sizes, dx, dy) \/ HasFlat(layout(sizes, x, y, dx, dy))

\* max(rect["dx"] / rect["dy"], rect["dy"] / rect["dx"])
Ratio(a, b) == IF XGt(b, a) THEN b ELSE a

WorstOf(rects) ==
    XMaxSeq([i \in 1..Len(rects) |->
                Ratio(XDiv(rects[i].dx, rects[i].dy), XDiv(rects[i].dy, rects[i].dx))])

\* squarify.worst_ratio
worst_ratio(sizes, x, y, dx, dy) == WorstOf(layout(sizes, x, y, dx, dy))

RECURSIVE RowEnd(_, _, _, _, _, _)
\* the while loop of squarify.squarify: the length of the first row, or 0
\* when a worst_ratio raises
RowEnd(sizes, i, x, y, dx, dy) ==
    IF i >= Len(sizes) THEN i
    ELSE IF \/ WorstRatioRaises(SubSeq(sizes, 1, i), x, y, dx, dy)
            \/ WorstRatioRaises(SubSeq(sizes, 1, i + 1), x, y, dx, dy)
         THEN 0
    ELSE IF XGe(worst_ratio(SubSeq(sizes, 1, i), x, y, dx, dy),
                worst_ratio(SubSeq(sizes, 1, i + 1), x, y, dx, dy))
         THEN RowEnd(sizes, i + 1, x, y, dx, dy)
    ELSE i

ZeroDivisionError == [ok |-> FALSE, rects |-> <<>>]

\* layout(current, ...) + squarify(remaining, ...)
JoinRows(first, rest) ==
    IF ~rest.ok THEN ZeroDivisionError ELSE [ok |-> TRUE, rects |-> first \o rest.rects]

RECURSIVE squarify(_, _, _, _, _)
RECURSIVE SquarifyIn(_, _)
RECURSIVE SquarifyRows(_, _, _, _, _, _)

\* squarify.squarify
squarify(sizes, x, y, dx, dy) ==
    IF Len(sizes) = 0 THEN [ok |-> TRUE, rects |-> <<>>]
    ELSE IF Len(sizes) = 1 THEN
        IF LayoutRaises(sizes, dx, dy) THEN ZeroDivisionError
        ELSE [ok |-> TRUE, rects |-> layout(sizes, x, y, dx, dy)]
    ELSE SquarifyRows(sizes, RowEnd(sizes, 1, x, y, dx, dy), x, y, dx, dy)

\* squarify of the sizes in a rectangle
SquarifyIn(sizes, rect) == squarify(sizes, rect.x, rect.y, rect.dx, rect.dy)

\* the first i sizes laid out as a row, the remaining ones squarified in
\* what the row leaves
SquarifyRows(sizes, i, x, y, dx, dy) ==
    IF i = 0 \/ LayoutRaises(SubSeq(sizes, 1, i), dx, dy) THEN ZeroDivisionError
    ELSE JoinRows(layout(SubSeq(sizes, 1, i), x, y, dx, dy),
                  SquarifyIn(SubSeq(sizes, i + 1, Len(sizes)),
                             leftover(SubSeq(sizes, 1, i), x, y, dx, dy)))

PadAll(out) ==
    [ok |-> out.ok, rects |-> [i \in 1..Len(out.rects) |-> pad_rectangle(out.rects[i])]]

\* squarify.padded_squarify
padded_squarify(sizes, x, y, dx, dy) == PadAll(squarify(sizes, x, y, dx, dy))

\* squarify.normalize_sizes: the sizes are numpy numbers, and so is their sum
normalize_sizes(sizes, dx, dy) ==
    LET total_size == XSum(Zero, sizes)
        total_area == XMul(dx, dy)
    IN  [i \in 1..Len(sizes) |-> NumpyDiv(XMul(sizes[i], total_area), total_size)]

(***************************************************************************)
(* The treemap layout (mpl_extra/treemap.py).  A data frame is a sequence  *)
(* of rows [key, area, label, fill, rect]: key is the index of the row, a   *)
(* tuple of the level values (0 stands for the empty string that replaces  *)
(* a missing value), label and fill are <<>> when the frame has no such    *)
(* column, and rect is <<>> until the '_rect_' column is assigned.         *)
(***************************************************************************)
RECURSIVE DescendingOrders(_, _)
\* the row orders a descending sort by '_area_' may produce: rows of equal
\* area may come in either order (the default sort is not stable)
DescendingOrders(df, rest) ==
    IF rest = {} THEN {<<>>}
    ELSE UNION {{<<i>> \o o : o \in DescendingOrders(df, rest \ {i})} :
                i \in {j \in rest : \A k \in rest : df[j].area >= df[k].area}}

sort_values(df) == DescendingOrders(df, 1..Len(df))

\* padded_squarify for the split root level, squarify otherwise
SquarifySizes(sizes, x, y, dx, dy, split) ==
    IF split THEN padded_squarify(sizes, x, y, dx, dy) ELSE squarify(sizes, x, y, dx, dy)

\* the rectangles squarify computes for the rows taken in the given order
SortedRects(df, order, x, y, dx, dy, split) ==
    SquarifySizes(normalize_sizes([i \in 1..Len(order) |-> OfInt(df[order[i]].area)], dx, dy),
                  x, y, dx, dy, split)

\* df.join(sorted_df['_rect_']): the rectangle of the i-th sorted row goes
\* to the row of the same index
JoinRects(df, order, out) ==
    IF ~out.ok THEN [ok |-> FALSE, df |-> df]
    ELSE [ok |-> TRUE,
          df |-> [j \in 1..Len(df) |->
                    [df[j] EXCEPT !.rect =
                        <<out.rects[CHOOSE i \in 1..Len(order) : order[i] = j]>>]]]

\* the rectangles taken by position, without the join on the index
AssignRects(df, order, out) ==
    IF ~out.ok THEN [ok |-> FALSE, df |-> df]
    ELSE [ok |-> TRUE, df |-> [j \in 1..Len(df) |-> [df[j] EXCEPT !.rect = <<out.rects[j]>>]]]

squarify_data_Positional(df, x, y, dx, dy, split) ==
    {AssignRects(df, order, SortedRects(df, order, x, y, dx, dy, split)) :
     order \in sort_values(df)}

\* squarify_data: the possible outcomes [ok, df] of one layout call, one for
\* every order the sort may produce
squarify_data(df, x, y, dx, dy, split) ==
    {JoinRects(df, order, SortedRects(df, order, x, y, dx, dy, split)) :
     order \in sort_values(df)}

\* a pad is [kind, v]: a number (v of length 1) or a tuple of numbers
Number(p) == [kind |-> "number", v |-> <<p>>]
Tuple(t) == [kind |-> "tuple", v |-> t]

\* get_surrounding_pad: ok is FALSE when it raises ValueError
get_surrounding_pad(pad) ==
    IF pad.kind = "number" THEN
        [ok |-> TRUE, pad_left |-> pad.v[1], pad_right |-> pad.v[1],
         pad_top |-> pad.v[1], pad_bottom |-> pad.v[1]]
    ELSE IF pad.kind = "tuple" /\ Len(pad.v) = 2 THEN
        [ok |-> TRUE, pad_left |-> pad.v[1], pad_top |-> pad.v[2],
         pad_right |-> pad.v[1], pad_bottom |-> pad.v[2]]
    ELSE IF pad.kind = "tuple" /\ Len(pad.v) = 4 THEN
        [ok |-> TRUE, pad_left |-> pad.v[1], pad_right |-> pad.v[2],
         pad_top |-> pad.v[3], pad_bottom |-> pad.v[4]]
    ELSE
        [ok |-> FALSE, pad_left |-> Zero, pad_right |-> Zero,
         pad_top |-> Zero, pad_bottom |-> Zero]

Prefix(key, d) == SubSeq(key, 1, d)

\* the order of two index tuples of the same length
KeyLess(a, b) ==
    \E i \in 1..Len(a) : a[i] < b[i] /\ \A j \in 1..(i - 1) : a[j] = b[j]

RECURSIVE SortKeys(_)
SortKeys(keys) ==
    IF keys = {} THEN <<>>
    ELSE LET first == CHOOSE k \in keys : \A o \in keys \ {k} : KeyLess(k, o)
         IN  <<first>> \o SortKeys(keys \ {first})

RECURSIVE SumArea(_, _)
\* agg 'sum' of '_area_' over the rows of one group
SumArea(data, prefix) ==
    IF data = <<>> THEN 0
    ELSE (IF Prefix(Head(data).key, Len(prefix)) = prefix THEN Head(data).area ELSE 0)
         + SumArea(Tail(data), prefix)

\* a slip: the last row of the group, not the first
FirstRow_Last(data, prefix) ==
    data[CHOOSE i \in 1..Len(data) :
            /\ Prefix(data[i].key, Len(prefix)) = prefix
            /\ \A j \in (i + 1)..Len(data) : Prefix(data[j].key, Len(prefix)) # prefix]

\* agg 'first' of a column over the rows of one group: the value of the
\* first row of the prefix, in the order of the data
FirstRow(data, prefix) ==
    data[CHOOSE i \in 1..Len(data) :
            /\ Prefix(data[i].key, Len(prefix)) = prefix
            /\ \A j \in 1..(i - 1) : Prefix(data[j].key, Len(prefix)) # prefix]

\* data.groupby(by=current_level, dropna=False).agg(agg_fun): one row per
\* distinct prefix, in the order of the sorted prefixes; '_label_' and
\* '_fill_' are <<>> when the data has no such column
groupby(data, d) ==
    LET keys == SortKeys({Prefix(data[i].key, d) : i \in 1..Len(data)})
    IN  [g \in 1..Len(keys) |->
            [key |-> keys[g], area |-> SumArea(data, keys[g]),
             label |-> FirstRow(data, keys[g]).label,
             fill |-> FirstRow(data, keys[g]).fill, rect |-> <<>>]]

\* a slip: split sets the weight 1 at every level
get_subgroups_SplitAll(data, split, levels) ==
    IF levels = 0 THEN
        <<[i \in 1..Len(data) |->
            [key |-> <<i - 1>>, area |-> data[i].area, label |-> data[i].label,
             fill |-> data[i].fill, rect |-> <<>>]]>>
    ELSE
        [d \in 1..levels |->
            LET group == groupby(data, d)
            IN  IF split
                THEN [g \in 1..Len(group) |-> [group[g] EXCEPT !.area = 1]]
                ELSE group]

\* get_subgroups: the data frame of every level; levels = 0 stands for
\* levels=None, where the one group '_group_' is the data itself
get_subgroups(data, split, levels) ==
    IF levels = 0 THEN
        <<[i \in 1..Len(data) |->
            [key |-> <<i - 1>>, area |-> data[i].area, label |-> data[i].label,
             fill |-> data[i].fill, rect |-> <<>>]]>>
    ELSE
        [d \in 1..levels |->
            LET group == groupby(data, d)
            IN  IF split /\ d = 1
                THEN [g \in 1..Len(group) |-> [group[g] EXCEPT !.area = 1]]
                ELSE group]

\* a slip: the rows of every parent, not of the one
ChildRows_All(subgroup, parent) == SortKeys({<<j>> : j \in 1..Len(subgroup)})

\* subgroup.loc[parent, :]: the positions of the rows of one parent
ChildRows(subgroup, parent) ==
    LET idx == {j \in 1..Len(subgroup) : Prefix(subgroup[j].key, Len(parent)) = parent}
    IN  SortKeys({<<j>> : j \in idx})

\* data[levels[i-1]].loc[parent, '_rect_']
ParentRect(subgroup, parent) ==
    LET j == CHOOSE j \in 1..Len(subgroup) : subgroup[j].key = parent
    IN  subgroup[j].rect[1]

\* the number 0 as the value of a numeric level column
NumberZero == -1

\* not key (lines 291-294): the empty string and the number 0 are falsy
Falsy(key) == key \in {0, NumberZero}

\* the container of the children of one parent (lines 291-294): the parent
\* rectangle inset by the pads, unless the first child key is falsy
ChildContainer(parent_rect, first_key, pads) ==
    IF Falsy(first_key) THEN parent_rect
    ELSE Rect(XAdd(parent_rect.x, pads.pad_left),
              XAdd(parent_rect.y, pads.pad_bottom),
              XSub(parent_rect.dx, XAdd(pads.pad_left, pads.pad_right)),
              XSub(parent_rect.dy, XAdd(pads.pad_bottom, pads.pad_top)))

\* the write-back with the rectangles in the reverse order of the rows
WriteBack_Reversed(subgroup, rows, out) ==
    IF ~out.ok THEN [ok |-> FALSE, df |-> subgroup]
    ELSE [ok |-> TRUE,
          df |-> [p \in 1..Len(subgroup) |->
                    IF \E c \in 1..Len(rows) : rows[c][1] = p
                    THEN [subgroup[p] EXCEPT !.rect =
                            out.df[Len(rows) + 1 - (CHOOSE c \in 1..Len(rows) : rows[c][1] = p)].rect]
                    ELSE subgroup[p]]]

\* subgroup.loc[parent, '_rect_'] = child_group['_rect_'].values (line 297):
\* the rows of one parent replaced by the laid out ones
WriteBack(subgroup, rows, out) ==
    IF ~out.ok THEN [ok |-> FALSE, df |-> subgroup]
    ELSE [ok |-> TRUE,
          df |-> [p \in 1..Len(subgroup) |->
                    IF \E c \in 1..Len(rows) : rows[c][1] = p
                    THEN out.df[CHOOSE c \in 1..Len(rows) : rows[c][1] = p]
                    ELSE subgroup[p]]]

\* subgroup.loc[parent, :] (line 284): the rows at the given positions
Rows(subgroup, rows) == [c \in 1..Len(rows) |-> subgroup[rows[c][1]]]

(***************************************************************************)
(* The earlier draft (mpl/extension): the treemap that lays out every      *)
(* level, then labels the levels from the leaves up, fitting a label by    *)
(* the search loop of annotate_with_autofit.                               *)
(***************************************************************************)
\* lines 111-113 of the loop: the text at this size is inside the rectangle
\* (without wrap, line_num and ratio are 1)
FitsRect(txt, fontsize, rect_width, rect_height, adjust, linespacing, dpi, fontprops) ==
    LET bbox == get_window_extent(txt, fontsize, 0, linespacing, dpi, fontprops)
    IN  /\ RLe(RMul(adjust, bbox.width), rect_width)
        /\ RLe(bbox.height, rect_height)

RECURSIVE GrowWhileFits(_, _, _, _, _, _, _, _)
\* the inner while (lines 114-120): one point more until the text no longer
\* fits; the size that no longer fits
GrowWhileFits(txt, fontsize, rect_width, rect_height, adjust, linespacing, dpi, fontprops) ==
    LET next == RAdd(fontsize, One)
    IN  IF FitsRect(txt, next, rect_width, rect_height, adjust, linespacing, dpi, fontprops)
        THEN GrowWhileFits(txt, next, rect_width, rect_height, adjust, linespacing, dpi, fontprops)
        ELSE next

RECURSIVE SearchFontsize(_, _, _, _, _, _, _, _, _)
\* the outer while (lines 107-125): halve the size until the text fits, then
\* grow it by points and step one point back
SearchFontsize(txt, fontsize, min_size, rect_width, rect_height, adjust, linespacing, dpi, fontprops) ==
    IF ~RLt(min_size, fontsize) THEN fontsize
    ELSE IF FitsRect(txt, fontsize, rect_width, rect_height, adjust, linespacing, dpi, fontprops)
    THEN RSub(GrowWhileFits(txt, fontsize, rect_width, rect_height, adjust,
                            linespacing, dpi, fontprops), One)
    ELSE SearchFontsize(txt, RDiv(fontsize, OfInt(2)), min_size, rect_width, rect_height,
                        adjust, linespacing, dpi, fontprops)

\* line 127: the size is never left below min_size
AtLeast(fontsize, min_size) == IF RLt(min_size, fontsize) THEN fontsize ELSE min_size

\* lines 72-81 and 106-127 for a rectangle in pixels
FitInPixels(txt, rect_width, rect_height, min_size, adjust, linespacing, dpi, fontprops) ==
    AtLeast(SearchFontsize(txt, RMul(RDiv(rect_height, OfInt(dpi)), OfInt(PointsPerInch)),
                           min_size, rect_width, rect_height, adjust, linespacing, dpi,
                           fontprops),
            min_size)

\* AxesExt.annotate_with_autofit without wrap: the font size of the
\* annotation it returns
annotate_with_autofit(txt, width, height, transform, min_size, adjust, linespacing, dpi, fontprops) ==
    FitInPixels(txt,
                RAdd(RMul(transform.a, width), RMul(transform.c, height)),
                RAdd(RMul(transform.b, width), RMul(transform.d, height)),
                min_size, adjust, linespacing, dpi, fontprops)

\* lines 260-263: the size of a leaf label is lowered to max_labelsize; None
\* is the empty sequence
ClampLabel(i, fontsize, max_labelsize) ==
    IF i = 0 /\ max_labelsize # <<>>
    THEN (IF RLt(fontsize, max_labelsize[1]) THEN fontsize ELSE max_labelsize[1])
    ELSE fontsize

\* labelprops.update(textprops): the keys the parent label gives replace
\* those of the shared labelprops; a key not given is the empty sequence
UpdateProps(labelprops, textprops) ==
    [grow |-> IF textprops.grow = <<>> THEN labelprops.grow ELSE textprops.grow[1],
     max_labelsize |-> IF textprops.max_labelsize = <<>> THEN labelprops.max_labelsize
                       ELSE textprops.max_labelsize[1],
     min_labelsize |-> labelprops.min_labelsize,
     adjust |-> labelprops.adjust]

\* lines 129-142: the children of one parent laid out in its rectangle
OldChildGroup(subgroup, rows, r) ==
    {WriteBack(subgroup, rows, out) :
     out \in squarify_data(Rows(subgroup, rows), r.x, r.y, r.dx, r.dy, FALSE)}

RECURSIVE OldChildren(_, _, _)
\* lines 126-142: the children of every parent from the j-th on; the
\* possible outcomes [ok, df]
OldChildren(parents, subgroup, j) ==
    IF j > Len(parents) THEN {[ok |-> TRUE, df |-> subgroup]}
    ELSE UNION {
        IF ~rest.ok THEN {rest}
        ELSE OldChildGroup(rest.df, ChildRows(rest.df, parents[j].key), parents[j].rect[1]) :
        rest \in OldChildren(parents, subgroup, j + 1)}

\* lines 101-142 of the earlier treemap: the rectangles of every level
old_rects(data, levels, norm_x, norm_y) ==
    UNION {
        IF ~root.ok \/ levels = 1 THEN {[ok |-> root.ok, rects |-> <<root.df>>]}
        ELSE {[ok |-> sub.ok, rects |-> <<root.df, sub.df>>] :
              sub \in OldChildren(root.df, groupby(data, 2), 1)} :
        root \in squarify_data(groupby(data, 1), Zero, Zero, norm_x, norm_y, FALSE)}

(***************************************************************************)
(* get_position (mpl_extra/treemap.py, line 214): the anchor of a label.   *)
(* A string is a sequence of characters.                                   *)
(***************************************************************************)
center == <<"c", "e", "n", "t", "e", "r">>
centre == <<"c", "e", "n", "t", "r", "e">>
left == <<"l", "e", "f", "t">>
right == <<"r", "i", "g", "h", "t">>
bottom == <<"b", "o", "t", "t", "o", "m">>
top == <<"t", "o", "p">>

Whitespace == {" ", "\t", "\n"}

RECURSIVE str_split(_)
\* pos.split(): the words between runs of whitespace
str_split(s) ==
    IF s = <<>> THEN <<>>
    ELSE IF Head(s) \in Whitespace THEN str_split(Tail(s))
    ELSE LET n == CHOOSE n \in 1..Len(s) :
                     /\ \A i \in 1..n : s[i] \notin Whitespace
                     /\ n = Len(s) \/ s[n + 1] \in Whitespace
         IN  <<SubSeq(s, 1, n)>> \o str_split(SubSeq(s, n + 1, Len(s)))

\* the dicts of lines 215-217
x_pos(x, dx, pad) ==
    [k \in {center, left, right} |->
        IF k = center THEN XAdd(x, XDiv(dx, OfInt(2)))
        ELSE IF k = left THEN XAdd(x, pad[1])
        ELSE XSub(XAdd(x, dx), pad[1])]

y_pos(y, dy, pad) ==
    [k \in {center, bottom, top} |->
        IF k = center THEN XAdd(y, XDiv(dy, OfInt(2)))
        ELSE IF k = bottom THEN XAdd(y, pad[2])
        ELSE XSub(XAdd(y, dy), pad[2])]

name_dict ==
    [k \in {<<"b">>, <<"c">>, <<"t">>, <<"l">>, <<"r">>} |->
        IF k = <<"b">> THEN bottom
        ELSE IF k = <<"c">> THEN center
        ELSE IF k = <<"t">> THEN top
        ELSE IF k = <<"l">> THEN left
        ELSE right]

\* the ValueError of line 233, and of the unpacking of line 227
InvalidPosition == [ok |-> FALSE, x |-> Zero, y |-> Zero, ha |-> <<>>, va |-> <<>>]

\* lines 230-231 and 224-225: KeyError when a name is not a key of the dicts
Lookup(xs, ys, xtxt, ytxt) ==
    IF xtxt \in DOMAIN xs /\ ytxt \in DOMAIN ys
    THEN [ok |-> TRUE, x |-> xs[xtxt], y |-> ys[ytxt], ha |-> xtxt, va |-> ytxt]
    ELSE InvalidPosition

\* a slip: the first letter names the horizontal side
TwoLetters_Swapped(xs, ys, pos) ==
    IF <<pos[1]>> \in DOMAIN name_dict /\ <<pos[2]>> \in DOMAIN name_dict
    THEN Lookup(xs, ys, name_dict[<<pos[1]>>], name_dict[<<pos[2]>>])
    ELSE InvalidPosition

\* lines 223-225: ytxt, xtxt = pos[0], pos[1]
TwoLetters(xs, ys, pos) ==
    IF <<pos[1]>> \in DOMAIN name_dict /\ <<pos[2]>> \in DOMAIN name_dict
    THEN Lookup(xs, ys, name_dict[<<pos[2]>>], name_dict[<<pos[1]>>])
    ELSE InvalidPosition

\* lines 227-231: ytxt, xtxt = pos.split()
TwoWords(xs, ys, words) ==
    IF Len(words) # 2 THEN InvalidPosition
    ELSE Lookup(xs, ys,
                IF words[2] = centre THEN center ELSE words[2],
                IF words[1] = centre THEN center ELSE words[1])

get_position(x, y, dx, dy, pos, pad) ==
    IF pos = <<"c">> \/ pos = center \/ pos = centre THEN
        [ok |-> TRUE, x |-> x_pos(x, dx, pad)[center], y |-> y_pos(y, dy, pad)[center],
         ha |-> center, va |-> center]
    ELSE IF Len(pos) = 2 THEN TwoLetters(x_pos(x, dx, pad), y_pos(y, dy, pad), pos)
    ELSE TwoWords(x_pos(x, dx, pad), y_pos(y, dy, pad), str_split(pos))

\* points2dist, lines 208-211: the one distance is taken by pixels2dist as
\* a distance along x; the result is a list of one number
points2dist(points, dpi, transform) ==
    LET inch_per_point == Frac(1, PointsPerInch)
        pixels == RMul(RMul(points, inch_per_point), OfInt(dpi))
    IN  pixels2dist(transform, <<pixels>>)

(***************************************************************************)
(* The projection of the input and the drawing (mpl_extra/treemap.py).     *)
(* The input of treemap is [kind, records, columns, area, labels, fill]:   *)
(* a DataFrame with the named columns or an array of numbers; records are  *)
(* the values the columns (or the arrays) hold, row by row.                *)
(***************************************************************************)
\* the names of the level columns: levels is the list of the first n of them
LevelNames == <<"L1", "L2">>

\* data.loc[:, levels] of lines 388, 396, 403 finds every named column
HasLevels(input, levels) == \A i \in 1..levels : LevelNames[i] \in input.columns

\* what get_plot_data raises
ProjectionError(err) == [ok |-> FALSE, err |-> err, rows |-> <<>>]

\* lines 381-422: the '_area_' column ("ok") or the error of the area source
AreaColumn(input, levels) ==
    IF input.kind = "DataFrame" THEN
        IF input.area.kind = "None" THEN "TypeError"
        ELSE IF input.area.kind = "str" THEN
            IF HasLevels(input, levels) /\ input.area.name \in input.columns
            THEN "ok" ELSE "KeyError"
        ELSE IF input.area.kind = "number" THEN
            IF HasLevels(input, levels) THEN "ok" ELSE "KeyError"
        ELSE IF ~HasLevels(input, levels) THEN "KeyError"
        ELSE IF ~input.area.numeric THEN "ValueError"
        ELSE IF input.area.len # Len(input.records) THEN "ValueError"
        ELSE "ok"
    ELSE "ok"

\* a slip: the length of an array is not compared with the data
ExtraColumn_AnyLength(input, source) ==
    IF source.kind = "None" THEN "ok"
    ELSE IF source.kind = "str" THEN
        IF input.kind # "DataFrame" THEN "ValueError"
        ELSE IF source.name \in input.columns THEN "ok" ELSE "KeyError"
    ELSE "ok"

\* lines 424-437 and 439-452: the '_label_' or '_fill_' column of a source
\* that is a column name or an array
ExtraColumn(input, source) ==
    IF source.kind = "None" THEN "ok"
    ELSE IF source.kind = "str" THEN
        IF input.kind # "DataFrame" THEN "ValueError"
        ELSE IF source.name \in input.columns THEN "ok" ELSE "KeyError"
    ELSE IF source.len # Len(input.records) THEN "ValueError"
    ELSE "ok"

\* the rows of selected_data.fillna(''): the level columns of a DataFrame
\* are the key; an array has no level column
Selected(input, levels) ==
    [i \in 1..Len(input.records) |->
        [key |-> IF input.kind = "DataFrame" THEN Prefix(input.records[i].key, levels)
                 ELSE <<>>,
         area |-> IF input.kind = "DataFrame" /\ input.area.kind = "number"
                  THEN input.area.v ELSE input.records[i].area,
         label |-> IF input.labels.kind = "None" THEN <<>> ELSE <<input.records[i].label>>,
         fill |-> IF input.fill.kind = "None" THEN <<>> ELSE <<input.records[i].fill>>]]

\* get_plot_data, lines 367-454
get_plot_data(input, levels) ==
    IF AreaColumn(input, levels) # "ok" THEN ProjectionError(AreaColumn(input, levels))
    ELSE IF ExtraColumn(input, input.labels) # "ok"
    THEN ProjectionError(ExtraColumn(input, input.labels))
    ELSE IF ExtraColumn(input, input.fill) # "ok"
    THEN ProjectionError(ExtraColumn(input, input.fill))
    ELSE [ok |-> TRUE, err |-> "none", rows |-> Selected(input, levels)]

RECURSIVE Unique(_)
\* fill_col.unique(): the values in the order of their first appearance
Unique(col) ==
    IF col = <<>> THEN <<>>
    ELSE <<Head(col)>> \o SelectSeq(Unique(Tail(col)), LAMBDA v : v # Head(col))

\* the place of a value in a sequence that holds it
IndexOf(seq, v) == CHOOSE i \in 1..Len(seq) : seq[i] = v

\* a slip: the colours of the list taken without cycling
CycleColor_Clamped(colors, i) == colors[IF i > Len(colors) THEN Len(colors) ELSE i]

\* itertools.cycle(colors): the colour of the i-th value, i from 1
CycleColor(colors, i) == colors[((i - 1) % Len(colors)) + 1]

\* cm.get_cmap(name, n).colors: the n colours of a listed colormap taken at
\* the places linspace(0, 1, n)
Resampled(name, n) ==
    [k \in 1..n |-> [cmap |-> name, at |-> IF n = 1 THEN Zero ELSE Frac(k - 1, n - 1)]]

\* get_colormap for a categorical fill column, lines 238-250: the colour of
\* every category of the column
get_colormap(cmap, fill_col) ==
    IF cmap.kind = "dict" THEN cmap.colors
    ELSE LET cats == Unique(fill_col)
             colors == IF cmap.kind = "name"
                       THEN Resampled(cmap.name, Len(cats)) ELSE cmap.colors
         IN  [c \in {cats[i] : i \in 1..Len(cats)} |-> CycleColor(colors, IndexOf(cats, c))]

\* the '_fill_' column of a frame
FillColumn(subgroup) == [j \in 1..Len(subgroup) |-> subgroup[j].fill[1]]

\* lines 188-191: the label of a non-leaf rectangle, the last truthy value of
\* an index that is a tuple, or else the index
SubgroupLabel(key) ==
    IF Len(key) = 1 THEN key[1]
    ELSE key[CHOOSE i \in 1..Len(key) : key[i] # 0 /\ \A j \in (i + 1)..Len(key) : key[j] = 0]

\* autofit.AutoFitText(...).auto_fit(axes): the text artist of a label
AutoFitText(level, key, text) == [level |-> level, key |-> key, text |-> text]

\* the rectangle artists of lines 134-149, one per row of the frame
RectArtists(level, subgroup, colors) ==
    [j \in 1..Len(subgroup) |->
        [level |-> level, key |-> subgroup[j].key, rect |-> subgroup[j].rect[1],
         fill |-> subgroup[j].fill,
         color |-> IF subgroup[j].fill = <<>> THEN <<>> ELSE <<colors[subgroup[j].fill[1]]>>]]

\* the text artists of lines 151-203: none without textprops or without the
\* '_label_' column
TextArtists(level, subgroup, textprops, is_leaf) ==
    IF ~textprops \/ subgroup[1].label = <<>> THEN <<>>
    ELSE [j \in 1..Len(subgroup) |->
            AutoFitText(level, subgroup[j].key,
                        IF is_leaf THEN subgroup[j].label[1] ELSE SubgroupLabel(subgroup[j].key))]

\* draw_subgroup, lines 107-205, for a frame without fill or with a
\* categorical one
draw_subgroup(level, subgroup, cmap, textprops, is_leaf) ==
    [rect_artists |->
        RectArtists(level, subgroup,
                    IF subgroup[1].fill = <<>> THEN <<>>
                    ELSE get_colormap(cmap, FillColumn(subgroup))),
     text_artists |-> TextArtists(level, subgroup, textprops, is_leaf),
     handles |-> IF subgroup[1].fill = <<>> THEN <<>> ELSE Unique(FillColumn(subgroup))]

\* a slip: every level that is not requested is drawn as the leaves are
Dispatch_All(k, levels, subgroup_rectprops) ==
    IF k \in subgroup_rectprops THEN "subgroup" ELSE "leaf"

\* lines 84 and 93: whether the loop of treemap draws a level, and as what
Dispatch(k, levels, subgroup_rectprops) ==
    IF k \in subgroup_rectprops THEN "subgroup"
    ELSE IF levels = 0 \/ k = levels THEN "leaf"
    ELSE "skip"
(***************************************************************************)
(* The font object.  get_font(findfont(props)) returns a cached object,    *)
(* the same for every caller with the same font properties: the size it    *)
(* was last set to stays until the next set_size.                          *)
(***************************************************************************)
\* a slip: the size of the font object is left as it was found
set_size_Kept(font, size, dpi) == font

\* font.set_size(size, dpi), lines 228 and 279
set_size(font, size, dpi) == [size |-> size, dpi |-> dpi]

\* font.set_text(line, 0, ...); font.get_width_height()[0] / 64.0: the
\* width of the line at the size the font object has
MeasuredWidth(font, line, fontprops) == LineWidth(line, font.size, font.dpi, fontprops)

\* a slip: only the first line is measured
WidthFontsizes_FirstLine(font, lines, width, fontprops) ==
    [i \in 1..Len(lines) |->
        RDiv(RMul(fontprops.size, width), MeasuredWidth(font, lines[1], fontprops))]

\* lines 280-286 of calc_fontsize_from_width on the font object as it is
WidthFontsizes(font, lines, width, fontprops) ==
    [i \in 1..Len(lines) |->
        RDiv(RMul(fontprops.size, width), MeasuredWidth(font, lines[i], fontprops))]

\* lines 229-234 of get_line_gap_from_boxedge on the font object as it is
LineGaps(font, lines, width, fontprops) ==
    [i \in 1..Len(lines) |-> RAbs(RSub(MeasuredWidth(font, lines[i], fontprops), width))]

\* the local variables of a call of get_wrapped_fontsize that has not set them
NoLocals == [wrap_txt |-> <<>>, w_fontsize |-> Zero, h_fontsize |-> Zero, delta_w |-> Zero]


(***************************************************************************)
(* The state.  Several state machines share the module: the autofit call   *)
(* in one step (Spec) and step by step (SpecSearch), the treemap layout    *)
(* (SpecLayout) and build (SpecTreemap), the labelling of the earlier      *)
(* draft (SpecOld) and the helper functions called on their own; the       *)
(* variables of the machines that do not run stay idle.                    *)
(***************************************************************************)
VARIABLES
    txtobj,     \* the Text: content, font size, rotation, line spacing, font, figure dpi
    patches,    \* the outline rectangles added to the axes
    pc,         \* "ready", or how the last call ended: "returned" / "raised"
    err,        \* the error the last call raised, or "none"
    call,       \* the arguments of the call and the text before it
    chosen,     \* the wrap candidate the call selected (line 82 / 85)
    plot_data,  \* the rows get_plot_data returns: [key, area]
    args,       \* the arguments of treemap: levels, split, pad, norm_x, norm_y
    data,       \* the data frame of every level, as squarify_subgroups updates it
    lpc,        \* where treemap is: "start", "grouped", "enter", "children", "returned", "raised"
    lerr,       \* the error treemap raised, or "none"
    level,      \* the level squarify_subgroups is at (i + 1 of line 273)
    parent_idx, \* the parents of the level whose children are not laid out yet
    calls,      \* the calls of squarify_data made so far, with their results
    oargs,      \* the arguments of the earlier treemap
    rects,      \* its rectangles, one data frame per level
    labelprops, \* its labelprops dict, shared by the levels
    oi,         \* the index i of its level loop (0 is the leaf level)
    pending,    \* the rectangles of the level still to be labelled
    drawed_labels, \* the annotations drawn so far
    opc,        \* where the earlier treemap is
    fin,        \* the arguments of a call of a helper function
    fout,       \* what the helper returned
    fpc,        \* where the helper call is: "ready", ..., "raised"
    font,       \* the font object of get_font: the size and dpi it was last set to
    input,      \* the data, area, labels and fill arguments of treemap
    opts,       \* its subgroup_rectprops keys, textprops and cmap
    xlim,       \* the limits of the axes, <<>> until treemap sets them
    artists,    \* the rectangles and texts added to the axes, in order
    tr_container, \* the TreemapContainer: patches, texts and handles by level
    dk          \* the level the drawing loop of line 83 is at

fitvars == <<txtobj, patches, pc, err, call, chosen>>
layoutvars == <<plot_data, args, data, lpc, lerr, level, parent_idx, calls>>
oldvars == <<oargs, rects, labelprops, oi, pending, drawed_labels, opc>>
fnvars == <<fin, fout, fpc, font>>
drawvars == <<input, opts, xlim, artists, tr_container, dk>>
vars == <<fitvars, layoutvars, oldvars, fnvars, drawvars>>

MaxWords == 3

Lexicon == {<<"H", "e", "l", "l", "o", ",">>, <<"W", "o", "r", "l", "d", "!">>, <<"a", "b">>}

RECURSIVE Sentences(_)
\* the texts of exactly k words of the lexicon, separated by single blanks
Sentences(k) ==
    IF k = 1 THEN Lexicon
    ELSE {s \o <<" ">> \o w : s \in Sentences(k - 1), w \in Lexicon}

Texts == UNION {Sentences(k) : k \in 1..MaxWords}

Rotations == {0, 90, 37}
Dpis == {144}
Fonts == {[adv |-> One, h |-> One]}
DefaultFontsize == OfInt(10)
DefaultLinespacing == Frac(6, 5)

Identity == [a |-> One, b |-> Zero, c |-> Zero, d |-> One, tx |-> Zero, ty |-> Zero]
Scaled == [a |-> OfInt(2), b |-> Zero, c |-> Zero, d |-> Frac(1, 2), tx |-> OfInt(3), ty |-> OfInt(5)]
Transforms == {Identity, Scaled}

Boxes == {<<200, 50>>, <<300, 20>>, <<60, 60>>, <<0, 50>>, <<200, 0>>, <<-1, 50>>, <<200, -1>>}

NoCall == [width |-> Zero, height |-> Zero, wrap |-> FALSE, grow |-> FALSE,
           transform |-> Identity, show_rect |-> FALSE,
           text0 |-> <<>>, fontsize0 |-> Zero, patches0 |-> 0]

\* no autofit call, no layout, no earlier treemap
FitIdle ==
    /\ txtobj = [text |-> <<>>, fontsize |-> DefaultFontsize, rotation |-> 0,
                 linespacing |-> DefaultLinespacing, font |-> [adv |-> One, h |-> One],
                 dpi |-> 144]
    /\ patches = <<>>
    /\ pc = "idle"
    /\ err = "none"
    /\ call = NoCall
    /\ chosen = NoCandidate

LayoutIdle ==
    /\ plot_data = <<>>
    /\ args = [levels |-> 0, split |-> FALSE, pad |-> Number(Zero),
               norm_x |-> Zero, norm_y |-> Zero]
    /\ data = <<>>
    /\ lpc = "idle"
    /\ lerr = "none"
    /\ level = 0
    /\ parent_idx = {}
    /\ calls = {}

NoProps == [grow |-> FALSE, max_labelsize |-> <<>>, min_labelsize |-> One, adjust |-> One]

OldIdle ==
    /\ oargs = [data |-> <<>>, levels |-> 0, labelprops |-> NoProps,
                parent_label |-> <<>>]
    /\ rects = <<>>
    /\ labelprops = NoProps
    /\ oi = 0
    /\ pending = <<>>
    /\ drawed_labels = <<>>
    /\ opc = "idle"

\* the font object as nobody has set it
NoFont == [size |-> Zero, dpi |-> 0]

FnIdle ==
    /\ fin = <<>>
    /\ fout = <<>>
    /\ fpc = "idle"
    /\ font = NoFont

\* the container of line 42
NoArtists == [patches |-> <<>>, texts |-> <<>>, handles |-> <<>>]

DrawIdle ==
    /\ input = <<>>
    /\ opts = <<>>
    /\ xlim = <<>>
    /\ artists = <<>>
    /\ tr_container = NoArtists
    /\ dk = 0

Init ==
    /\ txtobj \in [text : Texts, fontsize : {DefaultFontsize}, rotation : Rotations,
                   linespacing : {DefaultLinespacing}, font : Fonts, dpi : Dpis]
    /\ patches = <<>>
    /\ pc = "ready"
    /\ err = "none"
    /\ call = NoCall
    /\ chosen = NoCandidate
    /\ LayoutIdle
    /\ OldIdle
    /\ FnIdle
    /\ DrawIdle

\* one call of text_with_autofit on the text object
TextWithAutofit ==
    /\ pc = "ready"
    /\ \E box \in Boxes, wrap \in BOOLEAN, grow \in BOOLEAN,
          transform \in Transforms, show_rect \in BOOLEAN :
        LET width == OfInt(box[1])
            height == OfInt(box[2])
        IN  \E out \in {text_with_autofit(txtobj, width, height, wrap, grow, transform, show_rect)} :
            /\ txtobj' = [txtobj EXCEPT !.text = out.text, !.fontsize = out.fontsize]
            /\ patches' = patches \o out.rect
            /\ pc' = out.pc
            /\ err' = out.err
            /\ chosen' = out.chosen
            /\ call' = [width |-> width, height |-> height, wrap |-> wrap, grow |-> grow,
                        transform |-> transform, show_rect |-> show_rect,
                        text0 |-> txtobj.text, fontsize0 |-> txtobj.fontsize,
                        patches0 |-> Len(patches)]
    /\ UNCHANGED <<layoutvars, oldvars, fnvars, drawvars>>

Next == TextWithAutofit

Spec == Init /\ [][Next]_vars

(***************************************************************************)
(* The layout state machine: treemap groups the rows (get_subgroups) and   *)
(* squarify_subgroups lays the levels out from the root down, one parent   *)
(* of a level after the other.                                             *)
(***************************************************************************)
MaxRows == 3

RowKeys == {<<1, 0>>, <<1, 1>>, <<2, 0>>, <<2, 1>>}
Weights == {1, 2}

\* the data of n rows, the rows in the order of their keys
Frames(n) ==
    {s \in [1..n -> [key : RowKeys, area : Weights, label : {<<>>}, fill : {<<>>}]] :
        \A i \in 1..(n - 1) : ~KeyLess(s[i + 1].key, s[i].key)}

\* a row of data without the '_label_' and '_fill_' columns
Row(key, area) == [key |-> key, area |-> area, label |-> <<>>, fill |-> <<>>]

\* a negative weight, a zero weight, weights of total zero, a numeric level
\* column with the value 0, three root groups, and the weights 6, 6, 4, 3, 2,
\* 2, 1 of the squarified treemap paper
SpecialFrames ==
    {<<Row(<<1, 0>>, -1), Row(<<1, 1>>, 2),
       Row(<<2, 1>>, 3)>>,
     <<Row(<<1, 1>>, 1), Row(<<1, 2>>, 2), Row(<<2, 1>>, 2), Row(<<3, 1>>, 1)>>,
     <<Row(<<1, NumberZero>>, 1), Row(<<1, 1>>, 2), Row(<<2, 1>>, 2)>>,
     <<Row(<<1, 1>>, 2), Row(<<2, 1>>, 0)>>,
     <<Row(<<1, 1>>, 0), Row(<<2, 1>>, 0)>>,
     <<Row(<<1, 1>>, 1), Row(<<2, 1>>, -1)>>,
     <<Row(<<1, 1>>, 6), Row(<<1, 1>>, 6),
       Row(<<1, 1>>, 4), Row(<<1, 2>>, 3),
       Row(<<2, 1>>, 2), Row(<<2, 1>>, 2),
       Row(<<2, 2>>, 1)>>}

Datasets == UNION {Frames(n) : n \in 1..MaxRows} \cup SpecialFrames

Levels == {0, 1, 2}
Pads == {Number(Zero), Number(One), Number(OfInt(3)), Tuple(<<One, Zero>>),
         Tuple(<<One, Zero, Zero, Frac(1, 2)>>), Tuple(<<One, One, One>>)}
Norms == {<<6, 4>>}

\* a split treemap in a square of side 6
SquareArgs ==
    [levels : {1, 2}, split : {TRUE}, pad : {Number(Zero), Number(One)},
     norm_x : {OfInt(6)}, norm_y : {OfInt(6)}]

\* the arguments of treemap: split needs levels, a pad has an effect from the
\* second level on
TreemapArgs ==
    {a \in [levels : Levels, split : BOOLEAN, pad : Pads,
            norm_x : {OfInt(n[1]) : n \in Norms}, norm_y : {OfInt(n[2]) : n \in Norms}] :
        /\ a.levels = 0 => ~a.split
        /\ a.levels < 2 => a.pad = Number(Zero)}
    \cup SquareArgs

InitLayout ==
    /\ plot_data \in Datasets
    /\ args \in TreemapArgs
    /\ data = <<>>
    /\ lpc = "start"
    /\ lerr = "none"
    /\ level = 0
    /\ parent_idx = {}
    /\ calls = {}
    /\ FitIdle
    /\ OldIdle
    /\ FnIdle
    /\ DrawIdle

\* treemap, lines 62-64; the groupby of line 356 raises KeyError when the
\* rows have no column of a level
GetSubgroups ==
    /\ lpc = "start"
    /\ IF args.levels > Len(plot_data[1].key) THEN
           /\ lpc' = "raised"
           /\ lerr' = "KeyError"
           /\ UNCHANGED data
       ELSE
           /\ data' = get_subgroups(plot_data, args.split, args.levels)
           /\ lpc' = "grouped"
           /\ UNCHANGED lerr
    /\ UNCHANGED <<plot_data, args, level, parent_idx, calls, fitvars, oldvars, fnvars, drawvars>>

\* the record of one call of squarify_data
Call(lvl, parent, x, y, dx, dy, split, out) ==
    [level |-> lvl, parent |-> parent, x |-> x, y |-> y, dx |-> dx, dy |-> dy,
     split |-> split, ok |-> out.ok, df |-> out.df]

\* squarify_subgroups, lines 268-277: the one group of levels=None, or the
\* root level
SquarifyRoot ==
    /\ lpc = "grouped"
    /\ \E split \in {args.levels # 0 /\ args.split} :
       \E out \in squarify_data(data[1], Zero, Zero, args.norm_x, args.norm_y, split) :
            /\ calls' = calls \cup {Call(1, <<>>, Zero, Zero, args.norm_x, args.norm_y, split, out)}
            /\ IF ~out.ok THEN
                   /\ lpc' = "raised"
                   /\ lerr' = "ZeroDivisionError"
                   /\ UNCHANGED <<data, level>>
               ELSE
                   /\ data' = [data EXCEPT ![1] = out.df]
                   /\ lpc' = IF args.levels <= 1 THEN "returned" ELSE "enter"
                   /\ level' = IF args.levels <= 1 THEN level ELSE 2
                   /\ UNCHANGED lerr
    /\ UNCHANGED <<plot_data, args, parent_idx, fitvars, oldvars, fnvars, drawvars>>

\* squarify_subgroups, lines 279-282: the pads of a non-root level and its
\* parents
EnterLevel ==
    /\ lpc = "enter"
    /\ IF ~get_surrounding_pad(args.pad).ok THEN
           /\ lpc' = "raised"
           /\ lerr' = "ValueError"
           /\ UNCHANGED parent_idx
       ELSE
           /\ parent_idx' = {Prefix(data[level][j].key, level - 1) : j \in 1..Len(data[level])}
           /\ lpc' = "children"
           /\ UNCHANGED lerr
    /\ UNCHANGED <<plot_data, args, data, level, calls, fitvars, oldvars, fnvars, drawvars>>

\* squarify_subgroups, lines 283-297: the children of one parent
SquarifyChildren ==
    /\ lpc = "children"
    /\ \E parent \in parent_idx :
       \E rows \in {ChildRows(data[level], parent)} :
       \E box \in {ChildContainer(ParentRect(data[level - 1], parent),
                                  data[level][rows[1][1]].key[level],
                                  get_surrounding_pad(args.pad))} :
       \E out \in squarify_data(Rows(data[level], rows), box.x, box.y, box.dx, box.dy, FALSE) :
       \E written \in {WriteBack(data[level], rows, out)} :
            /\ calls' = calls \cup {Call(level, parent, box.x, box.y, box.dx, box.dy, FALSE, out)}
            /\ IF ~out.ok THEN
                   /\ lpc' = "raised"
                   /\ lerr' = "ZeroDivisionError"
                   /\ UNCHANGED <<data, level, parent_idx>>
               ELSE
                   /\ data' = [data EXCEPT ![level] = written.df]
                   /\ parent_idx' = parent_idx \ {parent}
                   /\ lpc' = IF parent_idx' # {} THEN "children"
                             ELSE IF level = args.levels THEN "returned" ELSE "enter"
                   /\ level' = IF parent_idx' = {} /\ level < args.levels
                               THEN level + 1 ELSE level
                   /\ UNCHANGED lerr
    /\ UNCHANGED <<plot_data, args, fitvars, oldvars, fnvars, drawvars>>

NextLayout == GetSubgroups \/ SquarifyRoot \/ EnterLevel \/ SquarifyChildren

SpecLayout == InitLayout /\ [][NextLayout]_vars

(***************************************************************************)
(* The labelling of the earlier draft: AxesExt.treemap computes the        *)
(* rectangles of every level, then annotates the levels from the leaves    *)
(* up.  Labels are drawn (label=True) and not wrapped.                     *)
(***************************************************************************)
OldKeys == {<<1, 1>>, <<1, 2>>, <<2, 1>>}

\* the data of one or two rows in the order of their keys, the weights positive
OldFrames ==
    UNION {{s \in [1..n -> [key : OldKeys, area : Weights, label : {<<>>}, fill : {<<>>}]] :
               \A i \in 1..(n - 1) : KeyLess(s[i].key, s[i + 1].key)} : n \in {1, 2}}

\* the label of a rectangle: its last key, as a text
LabelText(key) == IF key[Len(key)] = 1 THEN <<"a", "b">> ELSE <<"H", "e", "l", "l", "o", ",">>

LabelProps ==
    [grow : BOOLEAN, max_labelsize : {<<>>, <<OfInt(15)>>},
     min_labelsize : {One, OfInt(12)}, adjust : {One}]

\* parent_label: None, or the dict of the one parent level; a key that is
\* not given is the empty sequence
ParentLabels ==
    {<<>>} \cup
    {<<p>> : p \in [grow : {<<>>, <<TRUE>>, <<FALSE>>},
                    max_labelsize : {<<>>, <<<<OfInt(12)>>>>}]}

OldNorm == OfInt(100)
OldTransData == [a |-> OfInt(2), b |-> Zero, c |-> Zero, d |-> OfInt(2), tx |-> Zero, ty |-> Zero]
OldDpi == CHOOSE d \in Dpis : TRUE
OldFont == CHOOSE f \in Fonts : TRUE

InitOld ==
    /\ oargs \in [data : OldFrames, levels : {1, 2}, labelprops : LabelProps,
                  parent_label : ParentLabels]
    /\ rects = <<>>
    /\ labelprops = oargs.labelprops
    /\ oi = 0
    /\ pending = <<>>
    /\ drawed_labels = <<>>
    /\ opc = "start"
    /\ FitIdle
    /\ LayoutIdle
    /\ FnIdle
    /\ DrawIdle

\* AxesExt.treemap, lines 101-142
OldLayout ==
    /\ opc = "start"
    /\ \E out \in old_rects(oargs.data, oargs.levels, OldNorm, OldNorm) :
        /\ rects' = out.rects
        /\ opc' = IF out.ok THEN "level" ELSE "raised"
    /\ UNCHANGED <<oargs, labelprops, oi, pending, drawed_labels, fitvars, layoutvars, fnvars, drawvars>>

\* lines 187-203: the next level, the leaves first; the label properties of
\* a parent level update the shared labelprops
OldEnterLevel ==
    /\ opc = "level"
    /\ IF oi = oargs.levels THEN
           /\ opc' = "returned"
           /\ UNCHANGED <<labelprops, pending>>
       ELSE
           /\ labelprops' = IF oi > 0 /\ oargs.parent_label # <<>>
                            THEN UpdateProps(labelprops, oargs.parent_label[1])
                            ELSE labelprops
           /\ pending' = rects[oargs.levels - oi]
           /\ opc' = "labels"
    /\ UNCHANGED <<oargs, rects, oi, drawed_labels, fitvars, layoutvars, fnvars, drawvars>>

\* lines 205-265: the label of one rectangle
OldLabel ==
    /\ opc = "labels"
    /\ \E row \in {Head(pending)} :
       \E fontsize \in {IF labelprops.grow
                        THEN ClampLabel(oi,
                                 annotate_with_autofit(LabelText(row.key), row.rect[1].dx,
                                     row.rect[1].dy, OldTransData, labelprops.min_labelsize,
                                     labelprops.adjust, DefaultLinespacing, OldDpi, OldFont),
                                 labelprops.max_labelsize)
                        ELSE DefaultFontsize} :
           drawed_labels' = Append(drawed_labels,
                                   [key |-> row.key, i |-> oi, grow |-> labelprops.grow,
                                    fontsize |-> fontsize,
                                    min_labelsize |-> labelprops.min_labelsize,
                                    max_labelsize |-> labelprops.max_labelsize])
    /\ pending' = Tail(pending)
    /\ opc' = IF Tail(pending) = <<>> THEN "level" ELSE "labels"
    /\ oi' = IF Tail(pending) = <<>> THEN oi + 1 ELSE oi
    /\ UNCHANGED <<oargs, rects, labelprops, fitvars, layoutvars, fnvars, drawvars>>

NextOld == OldLayout \/ OldEnterLevel \/ OldLabel

SpecOld == InitOld /\ [][NextOld]_vars


(***************************************************************************)
(* The helper functions, each called on its own: the arguments are drawn   *)
(* in the initial state and the actions apply the function.                *)
(***************************************************************************)
\* affine transforms: the identity, a scale with a translation, the rotations
\* by 90 degrees and by the angle of the 3-4-5 triangle with a non-uniform
\* scale and a translation, a shear, and a singular one
Rotated90 == [a |-> Zero, b |-> One, c |-> RNeg(One), d |-> Zero, tx |-> OfInt(7), ty |-> Zero]
RotatedScaled ==
    [a |-> Frac(6, 5), b |-> Frac(8, 5), c |-> Frac(-12, 5), d |-> Frac(9, 5),
     tx |-> OfInt(3), ty |-> OfInt(-5)]
Sheared == [a |-> One, b |-> Zero, c |-> Frac(1, 2), d |-> OfInt(3), tx |-> Zero, ty |-> OfInt(2)]
Singular == [a |-> One, b |-> OfInt(2), c |-> OfInt(2), d |-> OfInt(4), tx |-> One, ty |-> One]
AffineTransforms == {Identity, Scaled, Rotated90, RotatedScaled, Sheared, Singular}

Dists == {Zero, One, OfInt(-2), Frac(1, 3), OfInt(10)}

InitDist ==
    /\ fin \in [transform : AffineTransforms, dx : Dists, dy : Dists]
    /\ fout = <<>>
    /\ fpc = "ready"
    /\ font = NoFont
    /\ FitIdle
    /\ LayoutIdle
    /\ OldIdle
    /\ DrawIdle

\* dist2pixels(transform, dx, dy)
Dist2Pixels ==
    /\ fpc = "ready"
    /\ fout' = [pixels |-> dist2pixels(fin.transform, <<fin.dx, fin.dy>>), dist |-> <<>>]
    /\ fpc' = "pixels"
    /\ UNCHANGED <<fin, font, fitvars, layoutvars, oldvars, drawvars>>

\* pixels2dist(transform, px, py) on the pixels of the first call
Pixels2Dist ==
    /\ fpc = "pixels"
    /\ IF IsZero(Det(fin.transform)) THEN
           /\ fpc' = "raised"
           /\ UNCHANGED fout
       ELSE
           /\ fout' = [fout EXCEPT !.dist = pixels2dist(fin.transform, fout.pixels)]
           /\ fpc' = "dist"
    /\ UNCHANGED <<fin, font, fitvars, layoutvars, oldvars, drawvars>>

NextDist == Dist2Pixels \/ Pixels2Dist

SpecDist == InitDist /\ [][NextDist]_vars

\* the placements of the documentation in their long and their two-letter
\* form, and strings that are none of them
Vertical == {top, bottom, center}
Horizontal == {left, right, center}
LongForms == {v \o <<" ">> \o h : v \in Vertical, h \in Horizontal}
ShortForms == {<<v[1], h[1]>> : v \in Vertical, h \in Horizontal}
PlainForms == {<<"c">>, center, centre}
OtherStrings ==
    {<<>>, top, left, <<"l", "t">>, <<"x", "y">>, <<"t", " ">>, <<"T", "L">>,
     left \o <<" ">> \o top, top \o <<" ">> \o left \o <<" ">> \o center,
     <<"T", "o", "p">> \o <<" ">> \o left, top \o left,
     top \o <<" ", " ">> \o left, <<" ">> \o bottom \o <<" ">> \o right,
     top \o <<"\t">> \o right, centre \o <<" ">> \o left, top \o <<" ">> \o centre,
     centre \o <<" ">> \o centre, <<"c", "e", "n", "t", "e", "r", " ">>}
Placements == LongForms \cup ShortForms \cup PlainForms \cup OtherStrings

LabelRects == {Rect(Zero, Zero, OfInt(6), OfInt(4)), Rect(OfInt(2), One, OfInt(3), OfInt(5))}
LabelPads == {<<Zero, Zero>>, <<Frac(1, 2), Frac(1, 4)>>}

InitPosition ==
    /\ fin \in [rect : LabelRects, pos : Placements, pad : LabelPads]
    /\ fout = <<>>
    /\ fpc = "ready"
    /\ font = NoFont
    /\ FitIdle
    /\ LayoutIdle
    /\ OldIdle
    /\ DrawIdle

\* get_position(x, y, dx, dy, pos, pad)
GetPosition ==
    /\ fpc = "ready"
    /\ fout' = get_position(fin.rect.x, fin.rect.y, fin.rect.dx, fin.rect.dy, fin.pos, fin.pad)
    /\ fpc' = IF fout'.ok THEN "returned" ELSE "raised"
    /\ UNCHANGED <<fin, font, fitvars, layoutvars, oldvars, drawvars>>

NextPosition == GetPosition

SpecPosition == InitPosition /\ [][NextPosition]_vars

(***************************************************************************)
(* The margins of a label in draw_subgroup, lines 166-170.                 *)
(***************************************************************************)
\* axes.transData: the identity, a scale that differs in x and y, and a
\* uniform scale
Uniform == [a |-> OfInt(3), b |-> Zero, c |-> Zero, d |-> OfInt(3), tx |-> One, ty |-> OfInt(2)]
DataTransforms == {Identity, Scaled, Uniform}

\* marginx and marginy in points
Margins == {Zero, Frac(1, 2), One, OfInt(2), OfInt(4)}

InitMargins ==
    /\ fin \in [marginx : Margins, marginy : Margins, dpi : {72, 144},
                transData : DataTransforms, rect : LabelRects,
                place : {top \o <<" ">> \o left, center}]
    /\ fout = [offsetx |-> <<>>, offsety |-> <<>>, position |-> <<>>]
    /\ fpc = "ready"
    /\ font = NoFont
    /\ FitIdle
    /\ LayoutIdle
    /\ OldIdle
    /\ DrawIdle

\* line 168
OffsetX ==
    /\ fpc = "ready"
    /\ fout' = [fout EXCEPT !.offsetx = points2dist(fin.marginx, fin.dpi, fin.transData)]
    /\ fpc' = "offsetx"
    /\ UNCHANGED <<fin, font, fitvars, layoutvars, oldvars, drawvars>>

\* line 169
OffsetY ==
    /\ fpc = "offsetx"
    /\ fout' = [fout EXCEPT !.offsety = points2dist(fin.marginy, fin.dpi, fin.transData)]
    /\ fpc' = "offsety"
    /\ UNCHANGED <<fin, font, fitvars, layoutvars, oldvars, drawvars>>

\* line 170
PlaceLabel ==
    /\ fpc = "offsety"
    /\ fout' = [fout EXCEPT !.position =
                   get_position(fin.rect.x, fin.rect.y, fin.rect.dx, fin.rect.dy, fin.place,
                                <<fout.offsetx[1], fout.offsety[1]>>)]
    /\ fpc' = "placed"
    /\ UNCHANGED <<fin, font, fitvars, layoutvars, oldvars, drawvars>>

NextMargins == OffsetX \/ OffsetY \/ PlaceLabel

SpecMargins == InitMargins /\ [][NextMargins]_vars

(***************************************************************************)
(* The treemap build: treemap projects the input (get_plot_data), groups   *)
(* and lays out the levels, sets the limits of the axes and draws the      *)
(* levels in the order of the list.                                        *)
(***************************************************************************)
BuildKeys == {<<1, 0>>, <<1, 1>>, <<2, 1>>}
Fills == {"A", "B"}

\* one record of the input: its level values, weight, label and fill
\* category; the label is the place of the record
Record(i, key, area, fill) == [key |-> key, area |-> area, label |-> i, fill |-> fill]

\* the records of one or two rows, in any order of their keys, and three
\* frames of three categories
BuildRecords ==
    {<<Record(1, k, a, f)>> : k \in BuildKeys, a \in Weights, f \in Fills}
    \cup {<<Record(1, k1, a, f1), Record(2, k2, 1, f2)>> :
            k1 \in BuildKeys, k2 \in BuildKeys, a \in Weights, f1 \in Fills, f2 \in Fills}
    \cup {<<Record(1, <<1, 1>>, 1, "A"), Record(2, <<1, 0>>, 2, "B"), Record(3, <<2, 1>>, 2, "C")>>,
          <<Record(1, <<2, 1>>, 2, "C"), Record(2, <<1, 1>>, 1, "A"), Record(3, <<1, 1>>, 1, "B")>>,
          <<Record(1, <<1, 1>>, 2, "A"), Record(2, <<2, 0>>, 1, "A"), Record(3, <<2, 1>>, 1, "C")>>}

AllColumns == {"L1", "L2", "w", "lab", "cat"}

\* the area argument: None, a column name, a number or an array
AreaSources(n) ==
    {[kind |-> "None"], [kind |-> "str", name |-> "w"], [kind |-> "str", name |-> "v"],
     [kind |-> "number", v |-> 1],
     [kind |-> "array", len |-> n, numeric |-> TRUE],
     [kind |-> "array", len |-> n + 1, numeric |-> TRUE],
     [kind |-> "array", len |-> n, numeric |-> FALSE]}

\* the labels or fill argument: None, the name of a column that is there or
\* not, or an array of the right or of another length
ExtraSources(n, name) ==
    {[kind |-> "None"], [kind |-> "str", name |-> name],
     [kind |-> "str", name |-> "other"],
     [kind |-> "array", len |-> n], [kind |-> "array", len |-> n + 1]}

\* the colours: a list of two, a dict of the categories, a listed colormap
Cmaps ==
    {[kind |-> "list", colors |-> <<"red", "blue">>],
     [kind |-> "dict", colors |-> [c \in {"A", "B", "C"} |->
                                     IF c = "A" THEN "green" ELSE IF c = "B" THEN "red" ELSE "blue"]],
     [kind |-> "name", name |-> "viridis"]}

DefaultOpts ==
    [subgroup_rectprops |-> {}, textprops |-> FALSE,
     cmap |-> [kind |-> "list", colors |-> <<"red", "blue">>]]

BuildArgs(levels, split) ==
    [levels |-> levels, split |-> split, pad |-> Number(Zero),
     norm_x |-> OfInt(6), norm_y |-> OfInt(4)]

\* every form of the arguments of get_plot_data, on two sets of records
InitProjection ==
    /\ \E records \in {<<Record(1, <<1, 1>>, 1, "A"), Record(2, <<2, 1>>, 2, "B")>>,
                       <<Record(1, <<2, 1>>, 2, "C")>>} :
          input \in [kind : {"DataFrame", "array"}, records : {records},
                     columns : {AllColumns, AllColumns \ {"L2"}},
                     area : AreaSources(Len(records)),
                     labels : ExtraSources(Len(records), "lab"),
                     fill : ExtraSources(Len(records), "cat")]
    /\ args \in {BuildArgs(0, FALSE), BuildArgs(2, FALSE)}
    /\ opts = DefaultOpts

\* the well-formed inputs with every choice of the levels, of the levels
\* that subgroup_rectprops names, of the labels and of the colours
InitOptions ==
    /\ \E labelled \in BOOLEAN :
          /\ input \in [kind : {"DataFrame"}, records : BuildRecords, columns : {AllColumns},
                        area : {[kind |-> "str", name |-> "w"]},
                        labels : {IF labelled THEN [kind |-> "str", name |-> "lab"]
                                  ELSE [kind |-> "None"]},
                        fill : {[kind |-> "None"], [kind |-> "str", name |-> "cat"]}]
          /\ args \in {BuildArgs(0, FALSE), BuildArgs(1, FALSE), BuildArgs(1, TRUE),
                       BuildArgs(2, FALSE), BuildArgs(2, TRUE)}
          /\ opts \in [subgroup_rectprops : SUBSET (1..args.levels) \cup {{3}},
                       textprops : {labelled}, cmap : Cmaps]
    /\ input.fill.kind = "None" => opts.cmap = DefaultOpts.cmap

InitTreemap ==
    /\ InitProjection \/ InitOptions
    /\ plot_data = <<>>
    /\ data = <<>>
    /\ lpc = "project"
    /\ lerr = "none"
    /\ level = 0
    /\ parent_idx = {}
    /\ calls = {}
    /\ xlim = <<>>
    /\ artists = <<>>
    /\ tr_container = NoArtists
    /\ dk = 0
    /\ FitIdle
    /\ OldIdle
    /\ FnIdle

\* treemap, lines 54-60
GetPlotData ==
    /\ lpc = "project"
    /\ \E out \in {get_plot_data(input, args.levels)} :
          /\ plot_data' = out.rows
          /\ lpc' = IF out.ok THEN "start" ELSE "raised"
          /\ lerr' = out.err
    /\ UNCHANGED <<args, data, level, parent_idx, calls, fitvars, oldvars, fnvars, drawvars>>

\* treemap, lines 80-81
SetLimits ==
    /\ lpc = "returned"
    /\ xlim' = <<args.norm_x, args.norm_y>>
    /\ dk' = 1
    /\ lpc' = "drawing"
    /\ UNCHANGED <<plot_data, args, data, lerr, level, parent_idx, calls,
                   input, opts, artists, tr_container, fitvars, oldvars, fnvars>>

\* the artists of a level put into the container, lines 90-92 and 97-99
Keep(container, k, drawn) ==
    [patches |-> Append(container.patches, [level |-> k, artists |-> drawn.rect_artists]),
     texts |-> Append(container.texts, [level |-> k, artists |-> drawn.text_artists]),
     handles |-> Append(container.handles, [level |-> k, artists |-> drawn.handles])]

\* treemap, lines 83-99: one turn of the loop over the levels
DrawLevel ==
    /\ lpc = "drawing"
    /\ dk <= Len(data)
    /\ \E how \in {Dispatch(dk, args.levels, opts.subgroup_rectprops)} :
          IF how = "skip" THEN UNCHANGED <<artists, tr_container>>
          ELSE \E drawn \in {draw_subgroup(dk, data[dk], opts.cmap, opts.textprops,
                                           how = "leaf")} :
                  /\ artists' = artists \o drawn.rect_artists \o drawn.text_artists
                  /\ tr_container' = Keep(tr_container, dk, drawn)
    /\ dk' = dk + 1
    /\ UNCHANGED <<layoutvars, input, opts, xlim, fitvars, oldvars, fnvars>>

\* treemap, lines 101-103
ReturnContainer ==
    /\ lpc = "drawing"
    /\ dk > Len(data)
    /\ lpc' = "done"
    /\ UNCHANGED <<plot_data, args, data, lerr, level, parent_idx, calls,
                   drawvars, fitvars, oldvars, fnvars>>

NextTreemap ==
    \/ GetPlotData \/ GetSubgroups \/ SquarifyRoot \/ EnterLevel \/ SquarifyChildren
    \/ SetLimits \/ DrawLevel \/ ReturnContainer

SpecTreemap == InitTreemap /\ [][NextTreemap]_vars
(***************************************************************************)
(* text_with_autofit step by step: the checks and the unwrapped fit, the   *)
(* loop over the line counts with the calls get_wrapped_fontsize makes on  *)
(* the shared font object, the selection, and the update of the text.      *)
(***************************************************************************)
\* the font object as earlier users left it
StaleFonts == {[size |-> DefaultFontsize, dpi |-> 144], [size |-> OfInt(24), dpi |-> 72]}

\* the font of the other machines, and a narrower one with lower lines
SearchFonts == Fonts \cup {[adv |-> Frac(1, 2), h |-> Frac(3, 4)]}

SearchCalls ==
    [width : {OfInt(b[1]) : b \in Boxes}, height : {OfInt(b[2]) : b \in Boxes},
     wrap : BOOLEAN, grow : BOOLEAN, transform : Transforms, show_rect : {FALSE},
     text0 : Texts, fontsize0 : {DefaultFontsize}, patches0 : {0}]

InitSearch ==
    /\ call \in {c \in SearchCalls : <<c.width[1], c.height[1]>> \in Boxes}
    /\ txtobj \in [text : {call.text0}, fontsize : {call.fontsize0}, rotation : Rotations,
                   linespacing : {DefaultLinespacing}, font : SearchFonts, dpi : Dpis]
    /\ patches = <<>>
    /\ pc = "ready"
    /\ err = "none"
    /\ chosen = NoCandidate
    /\ fin = <<>>
    /\ fout = NoLocals
    /\ fpc = "idle"
    /\ font \in StaleFonts
    /\ LayoutIdle
    /\ OldIdle
    /\ DrawIdle

\* txtobj.get_fontproperties(): the properties carry the size of the text
FontProperties == [adv |-> txtobj.font.adv, h |-> txtobj.font.h, size |-> txtobj.fontsize]

\* lines 47-71: the checks, the box in pixels and the unwrapped fit
EnterFit ==
    /\ pc = "ready"
    /\ IF InvalidBox(call.width, call.height) THEN
           /\ pc' = "raised" /\ err' = "InvalidBox" /\ UNCHANGED fin
       ELSE IF UnsupportedRotation(call.wrap, txtobj.rotation) THEN
           /\ pc' = "raised" /\ err' = "UnsupportedRotation" /\ UNCHANGED fin
       ELSE
           \E px \in {dist2pixels(call.transform, <<call.width, call.height>>)} :
           \E bbox \in {get_window_extent(txtobj.text, txtobj.fontsize, txtobj.rotation,
                                          txtobj.linespacing, txtobj.dpi, FontProperties)} :
               /\ fin' = [width_in_pixels |-> px[1], height_in_pixels |-> px[2],
                          adjusted_fontsize |-> NoWrapFontsize(txtobj.fontsize, px[1], px[2], bbox),
                          words |-> IF call.wrap THEN split_words(txtobj.text) ELSE <<>>,
                          line_num |-> 2, fontsizes |-> <<>>]
               /\ pc' = IF call.wrap THEN "loop" ELSE "set"
               /\ UNCHANGED err
    /\ UNCHANGED <<txtobj, patches, call, chosen, fout, fpc, font,
                   layoutvars, oldvars, drawvars>>

\* lines 73-77 and 205-209: the next line count, and the text wrapped for it
WrapText ==
    /\ pc = "loop" /\ fpc = "idle"
    /\ fin.line_num <= Len(fin.words)
    /\ \E words \in {split_words(txtobj.text)} :
       \E wrap_length \in {IMax(MaxLen(words), Len(txtobj.text) \div fin.line_num)} :
           fout' = [NoLocals EXCEPT !.wrap_txt = textwrap_wrap(txtobj.text, wrap_length)]
    /\ fpc' = "width"
    /\ UNCHANGED <<fitvars, fin, font, layoutvars, oldvars, drawvars>>

\* lines 210-212 and 277-290: the width bound, measured on the font object
CalcFontsizeFromWidth ==
    /\ fpc = "width"
    /\ font' = set_size(font, FontProperties.size, txtobj.dpi)
    /\ fout' = [fout EXCEPT !.w_fontsize =
                   RMinSeq(WidthFontsizes(font', fout.wrap_txt, fin.width_in_pixels,
                                          FontProperties))]
    /\ fpc' = "height"
    /\ UNCHANGED <<fitvars, fin, layoutvars, oldvars, drawvars>>

\* lines 214-216: the height bound
CalcFontsizeFromHeight ==
    /\ fpc = "height"
    /\ fout' = [fout EXCEPT !.h_fontsize =
                   calc_fontsize_from_height(fin.height_in_pixels, Len(fout.wrap_txt),
                                             txtobj.linespacing, txtobj.dpi)]
    /\ fpc' = "gap"
    /\ UNCHANGED <<fitvars, fin, font, layoutvars, oldvars, drawvars>>

\* lines 218-219 and 225-236: the gap to the box edge at the candidate size
GetLineGap ==
    /\ fpc = "gap"
    /\ \E adjusted_fontsize \in {RMin(fout.h_fontsize, fout.w_fontsize)} :
        /\ font' = set_size(font, adjusted_fontsize, txtobj.dpi)
        /\ fout' = [fout EXCEPT !.delta_w =
                       RMinSeq(LineGaps(font', fout.wrap_txt, fin.width_in_pixels,
                                        FontProperties))]
    /\ fpc' = "return"
    /\ UNCHANGED <<fitvars, fin, layoutvars, oldvars, drawvars>>

\* lines 222 and 78: the candidate is returned and appended
AppendCandidate ==
    /\ fpc = "return"
    /\ fin' = [fin EXCEPT
                  !.fontsizes = Append(@, [n |-> fin.line_num,
                                           size |-> RMin(fout.h_fontsize, fout.w_fontsize),
                                           lines |-> fout.wrap_txt, gap |-> fout.delta_w]),
                  !.line_num = @ + 1]
    /\ fpc' = "idle"
    /\ UNCHANGED <<fitvars, fout, font, layoutvars, oldvars, drawvars>>

\* lines 81-89: the selection; max and min raise ValueError on an empty list
SelectWrapped ==
    /\ pc = "loop" /\ fpc = "idle"
    /\ fin.line_num > Len(fin.words)
    /\ IF fin.fontsizes = <<>> THEN
           /\ pc' = "raised" /\ err' = "EmptySequence"
           /\ UNCHANGED <<txtobj, chosen, fin>>
       ELSE
           \E sel \in {SelectCandidate(fin.fontsizes, call.grow)} :
               /\ chosen' = sel
               /\ IF PreferWrapped(fin.adjusted_fontsize, sel.size) THEN
                      /\ fin' = [fin EXCEPT !.adjusted_fontsize = sel.size]
                      /\ txtobj' = [txtobj EXCEPT !.text = JoinLines(sel.lines)]
                  ELSE UNCHANGED <<fin, txtobj>>
               /\ pc' = "set"
               /\ UNCHANGED err
    /\ UNCHANGED <<patches, call, fout, fpc, font, layoutvars, oldvars, drawvars>>

\* lines 91-109: the size of the text is set and the text returned
SetFontsize ==
    /\ pc = "set"
    /\ txtobj' = [txtobj EXCEPT !.fontsize = fin.adjusted_fontsize]
    /\ patches' = IF call.show_rect
                  THEN Append(patches, [width |-> call.width, height |-> call.height])
                  ELSE patches
    /\ pc' = "returned"
    /\ UNCHANGED <<err, call, chosen, fnvars, layoutvars, oldvars, drawvars>>

NextSearch ==
    \/ EnterFit
    \/ WrapText
    \/ CalcFontsizeFromWidth
    \/ CalcFontsizeFromHeight
    \/ GetLineGap
    \/ AppendCandidate
    \/ SelectWrapped
    \/ SetFontsize

SpecSearch == InitSearch /\ [][NextSearch]_vars

(***************************************************************************)
(* What the claims read off a finished call.                               *)
(***************************************************************************)
\* the box of the call in pixels: the linear part of the transform applied to it
CallWidthPx ==
    RAdd(RMul(call.transform.a, call.width), RMul(call.transform.c, call.height))
CallHeightPx ==
    RAdd(RMul(call.transform.b, call.width), RMul(call.transform.d, call.height))

CallFontprops == [adv |-> txtobj.font.adv, h |-> txtobj.font.h, size |-> call.fontsize0]

\* the bounding box of the text as it was before the call
BBoxBefore ==
    get_window_extent(call.text0, call.fontsize0, txtobj.rotation, txtobj.linespacing,
                      txtobj.dpi, CallFontprops)

\* the bounding box of the text as the call left it
BBoxAfter ==
    get_window_extent(txtobj.text, txtobj.fontsize, txtobj.rotation, txtobj.linespacing,
                      txtobj.dpi, CallFontprops)

\* currentSize * min(boxWidthPx / bboxWidth, boxHeightPx / bboxHeight)
ScaledSize ==
    LET byWidth == RMul(call.fontsize0, RDiv(CallWidthPx, BBoxBefore.width))
        byHeight == RMul(call.fontsize0, RDiv(CallHeightPx, BBoxBefore.height))
    IN  IF RLe(byWidth, byHeight) THEN byWidth ELSE byHeight

Unchanged ==
    /\ txtobj.text = call.text0
    /\ txtobj.fontsize = call.fontsize0
    /\ Len(patches) = call.patches0

\* C1: a no-wrap autofit sets the font size to
\* currentSize * min(boxWidthPx / bboxWidth, boxHeightPx / bboxHeight), the
\* bounding box being the one rendered at the current size.
C1_NoWrapSize ==
    (pc = "returned" /\ ~call.wrap) => txtobj.fontsize = ScaledSize

\* size 10, bounding box 300 x 20, box 200 x 50: the size becomes 20/3
C1_Witness ==
    /\ pc = "returned" /\ ~call.wrap
    /\ call.fontsize0 = OfInt(10)
    /\ BBoxBefore = [width |-> OfInt(300), height |-> OfInt(20)]
    /\ CallWidthPx = OfInt(200) /\ CallHeightPx = OfInt(50)
    /\ txtobj.fontsize = Frac(20, 3)

\* C2: after a no-wrap autofit into a box of positive width and height the
\* text fits the box (bounding box no wider and no higher than the box) and
\* fills it in at least one of the two dimensions.
C2_FitsAndFills ==
    (pc = "returned" /\ ~call.wrap /\ RLt(Zero, CallWidthPx) /\ RLt(Zero, CallHeightPx)) =>
        /\ RLe(BBoxAfter.width, CallWidthPx)
        /\ RLe(BBoxAfter.height, CallHeightPx)
        /\ (BBoxAfter.width = CallWidthPx \/ BBoxAfter.height = CallHeightPx)

\* a fit bound by the height of the box, with room left in the width
C2_Witness ==
    /\ pc = "returned" /\ ~call.wrap
    /\ RLt(Zero, CallWidthPx) /\ RLt(Zero, CallHeightPx)
    /\ BBoxAfter.height = CallHeightPx
    /\ RLt(BBoxAfter.width, CallWidthPx)
    /\ txtobj.fontsize # call.fontsize0

\* C3: a wrap autofit never ends below the no-wrap size of the same text and
\* box; the content becomes the newline-joined lines of the selected
\* candidate exactly when that candidate's size is strictly above the no-wrap
\* size, and otherwise stays the original text at the no-wrap size.
C3_WrapNeverRegresses ==
    (pc = "returned" /\ call.wrap) =>
        /\ RLe(ScaledSize, txtobj.fontsize)
        /\ IF RLt(ScaledSize, chosen.size)
           THEN txtobj.text = JoinLines(chosen.lines) /\ txtobj.fontsize = chosen.size
           ELSE txtobj.text = call.text0 /\ txtobj.fontsize = ScaledSize

\* the selected candidate is smaller than the unwrapped fit and is dropped
C3_Witness ==
    /\ pc = "returned" /\ call.wrap
    /\ chosen.n >= 2
    /\ RLt(chosen.size, ScaledSize)
    /\ txtobj.text = call.text0
    /\ txtobj.fontsize = ScaledSize

\* C4: a call with a negative width or a negative height raises the
\* invalid-box error and changes nothing: same font size, same content, no
\* outline rectangle added.
C4_InvalidBoxFailsFirst ==
    (pc # "ready" /\ (RLt(call.width, Zero) \/ RLt(call.height, Zero))) =>
        /\ pc = "raised"
        /\ err = "InvalidBox"
        /\ Unchanged

\* a negative height alone, with the outline requested
C4_Witness ==
    /\ pc = "raised" /\ err = "InvalidBox"
    /\ RLt(call.height, Zero) /\ ~RLt(call.width, Zero)
    /\ call.show_rect
    /\ Unchanged

\* C5 as stated: with wrap the call raises the unsupported-rotation error if
\* and only if the rotation is no multiple of 90 degrees, without wrap never,
\* and on that error size and content are unchanged.
C5_Original ==
    pc # "ready" =>
        /\ call.wrap => (err = "UnsupportedRotation" <=> txtobj.rotation % 90 # 0)
        /\ ~call.wrap => err # "UnsupportedRotation"
        /\ err = "UnsupportedRotation" => Unchanged

\* C5 (amended): the call raises the unsupported-rotation error if and only
\* if wrap is set, the rotation is no multiple of 90 degrees and neither
\* width nor height is negative (a negative box is rejected first); on that
\* error size and content are unchanged.
C5_RotationError ==
    pc # "ready" =>
        /\ err = "UnsupportedRotation" <=>
              (/\ call.wrap
               /\ txtobj.rotation % 90 # 0
               /\ ~RLt(call.width, Zero) /\ ~RLt(call.height, Zero))
        /\ err = "UnsupportedRotation" => Unchanged

C5_Witness ==
    /\ pc = "raised" /\ err = "UnsupportedRotation"
    /\ call.wrap /\ txtobj.rotation % 90 # 0
    /\ Unchanged

\* the candidates of the call, one per line count 2 .. wordCount
CallCandidates ==
    Candidates(call.text0, CallHeightPx, CallWidthPx, txtobj.linespacing, txtobj.dpi,
               CallFontprops)

\* the smallest distance between a line's width at the given size and the box width
IsEdgeGap(g, lines, size) ==
    /\ \E i \in 1..Len(lines) :
          g = RAbs(RSub(LineWidth(lines[i], size, txtobj.dpi, CallFontprops), CallWidthPx))
    /\ \A i \in 1..Len(lines) :
          RLe(g, RAbs(RSub(LineWidth(lines[i], size, txtobj.dpi, CallFontprops), CallWidthPx)))

\* C7: with grow the selected candidate has the largest font size of all the
\* candidates, without grow the smallest edge gap; among candidates tied on
\* that key the one of the lowest line count is selected.
C7_Selection ==
    (pc = "returned" /\ call.wrap) =>
        LET cands == CallCandidates
        IN  /\ \E i \in 1..Len(cands) : cands[i] = chosen
            /\ IsEdgeGap(chosen.gap, chosen.lines, chosen.size)
            /\ \A i \in 1..Len(cands) :
                  IF call.grow
                  THEN /\ RLe(cands[i].size, chosen.size)
                       /\ cands[i].size = chosen.size => cands[i].n >= chosen.n
                  ELSE /\ RLe(chosen.gap, cands[i].gap)
                       /\ cands[i].gap = chosen.gap => cands[i].n >= chosen.n

\* grow: two line counts tie on the largest size and the lower one is selected
C7_Witness ==
    /\ pc = "returned" /\ call.wrap /\ call.grow
    /\ RLt(Zero, chosen.size)
    /\ \E i \in 1..Len(CallCandidates) :
          /\ CallCandidates[i].size = chosen.size
          /\ CallCandidates[i].n > chosen.n

(***************************************************************************)
(* What the claims read off the layout and the earlier labelling.          *)
(***************************************************************************)
\* the area of a rectangle, dx * dy
Area(r) == XMul(r.dx, r.dy)

RECURSIVE TotalArea(_)
\* the total of the weights of a data frame
TotalArea(df) == IF df = <<>> THEN 0 ELSE Head(df).area + TotalArea(Tail(df))

\* the container of a call is a rectangle of real numbers
FiniteBox(c) == IsFinite(c.x) /\ IsFinite(c.y) /\ IsFinite(c.dx) /\ IsFinite(c.dy)

\* the areas of the rectangles of a call sum to the area of its container,
\* and every row has the share of its weight
AreaConserved(c) ==
    /\ XSum(Zero, [j \in 1..Len(c.df) |-> Area(c.df[j].rect[1])]) = Area(c)
    /\ \A j \in 1..Len(c.df) :
          Area(c.df[j].rect[1]) =
              RDiv(RMul(Area(c), OfInt(c.df[j].area)), OfInt(TotalArea(c.df)))

XLe(a, b) == XGe(b, a)

\* rectangle r lies inside the box
Within(r, box) ==
    /\ XLe(Zero, r.dx) /\ XLe(Zero, r.dy)
    /\ XLe(box.x, r.x) /\ XLe(XAdd(r.x, r.dx), XAdd(box.x, box.dx))
    /\ XLe(box.y, r.y) /\ XLe(XAdd(r.y, r.dy), XAdd(box.y, box.dy))

\* the interiors of two rectangles meet
Overlap(a, b) ==
    /\ XGt(XAdd(a.x, a.dx), b.x) /\ XGt(XAdd(b.x, b.dx), a.x)
    /\ XGt(XAdd(a.y, a.dy), b.y) /\ XGt(XAdd(b.y, b.dy), a.y)

\* the rectangles of a call tile its container: none outside it, no two
\* overlapping, and their areas adding up to its area
Tiles(c) ==
    /\ \A j \in 1..Len(c.df) : Within(c.df[j].rect[1], c)
    /\ \A j, k \in 1..Len(c.df) : j # k => ~Overlap(c.df[j].rect[1], c.df[k].rect[1])
    /\ XSum(Zero, [j \in 1..Len(c.df) |-> Area(c.df[j].rect[1])]) = Area(c)

\* C9: the rectangles produced by one non-split layout call tile the
\* container rectangle R exactly: no two of them overlap in their interiors,
\* each lies inside R, and their union covers R.
C9_Tiling ==
    \A c \in calls : (c.ok /\ ~c.split) => Tiles(c)

\* the parent rectangle shrunk by the pads of the level
Inset(parent_rect, pads) ==
    Rect(XAdd(parent_rect.x, pads.pad_left),
         XAdd(parent_rect.y, pads.pad_bottom),
         XSub(parent_rect.dx, XAdd(pads.pad_left, pads.pad_right)),
         XSub(parent_rect.dy, XAdd(pads.pad_bottom, pads.pad_top)))

\* C10: after squarify_subgroups, for every non-root level and every group
\* at that level, the group's rectangle lies within its parent's rectangle
\* shrunk by the padding inset (left, right, top, bottom) of the level.
C10_Containment ==
    lpc = "returned" =>
        \A lvl \in 2..args.levels : \A j \in 1..Len(data[lvl]) :
            Within(data[lvl][j].rect[1],
                   Inset(ParentRect(data[lvl - 1], Prefix(data[lvl][j].key, lvl - 1)),
                         get_surrounding_pad(args.pad)))

\* C6: with minimum and/or maximum label sizes supplied, the font size of
\* every fitted label lies within [min, max], at every level of the
\* hierarchy.
C6_LabelSizeWithinBounds ==
    \A n \in 1..Len(drawed_labels) :
        drawed_labels[n].grow =>
            /\ RLe(drawed_labels[n].min_labelsize, drawed_labels[n].fontsize)
            /\ drawed_labels[n].max_labelsize # <<>> =>
                   RLe(drawed_labels[n].fontsize, drawed_labels[n].max_labelsize[1])

(***************************************************************************)
(* The claims on the layout calls, the projection of the input, the label  *)
(* anchors, the aggregation, the order of the layout and the drawing.      *)
(***************************************************************************)
\* the data frames get_subgroups made of the rows, before any layout
Grouped == get_subgroups(plot_data, args.split, args.levels)

\* the rows a layout call was given: the rows of its parent, in frame order
CallInput(c) ==
    SelectSeq(Grouped[c.level], LAMBDA r : Prefix(r.key, Len(c.parent)) = c.parent)

\* the frame a call returned has the rows it was given, and the rectangle of
\* the i-th row of a descending order is the i-th rectangle of the layout of
\* the sorted weights
Remapped(c) ==
    /\ Len(c.df) = Len(CallInput(c))
    /\ \A j \in 1..Len(c.df) :
          /\ c.df[j].key = CallInput(c)[j].key
          /\ c.df[j].area = CallInput(c)[j].area
          /\ Len(c.df[j].rect) = 1
    /\ \E order \in sort_values(CallInput(c)) :
          \A i \in 1..Len(order) :
              c.df[order[i]].rect[1] =
                  SortedRects(CallInput(c), order, c.x, c.y, c.dx, c.dy, c.split).rects[i]

\* every row of a finished level holds the rectangle its call computed for it
WrittenBack(lvl) ==
    /\ Len(data[lvl]) = Len(Grouped[lvl])
    /\ \A j \in 1..Len(data[lvl]) :
          /\ data[lvl][j].key = Grouped[lvl][j].key
          /\ data[lvl][j].area = Grouped[lvl][j].area
          /\ \E c \in calls :
                /\ c.ok /\ c.level = lvl
                /\ c.parent = Prefix(data[lvl][j].key, Len(c.parent))
                /\ \E k \in 1..Len(c.df) :
                      c.df[k].key = data[lvl][j].key /\ c.df[k].rect = data[lvl][j].rect

HasNegative(df) == \E j \in 1..Len(df) : df[j].area < 0

\* C12: a layout call fails with an invalid-weight error if a weight is
\* negative or if the total weight is zero while the container area is
\* positive, and no rectangle is assigned then.
C12_InvalidWeightRejected ==
    \A c \in calls :
        (HasNegative(c.df) \/ (TotalArea(c.df) = 0 /\ XGt(Area(c), Zero))) => ~c.ok

\* a transform without its translation part
Linear(T) == [T EXCEPT !.tx = Zero, !.ty = Zero]

\* C13: dist2pixels(T, dx, dy) is the displacement T(dx, dy) - T(0, 0), which
\* does not depend on the translation of T, and pixels2dist is its inverse:
\* for an invertible affine T, pixels2dist(T, dist2pixels(T, dx, dy)) is
\* (dx, dy).
C13_DisplacementRoundTrip ==
    /\ fpc \in {"pixels", "dist", "raised"} =>
          /\ fout.pixels =
                 <<RSub(TransformPoint(fin.transform, <<fin.dx, fin.dy>>)[1],
                        TransformPoint(fin.transform, <<Zero, Zero>>)[1]),
                   RSub(TransformPoint(fin.transform, <<fin.dx, fin.dy>>)[2],
                        TransformPoint(fin.transform, <<Zero, Zero>>)[2])>>
          /\ fout.pixels = TransformPoint(Linear(fin.transform), <<fin.dx, fin.dy>>)
    /\ fpc = "dist" => fout.dist = <<fin.dx, fin.dy>>
    /\ fpc = "raised" => IsZero(Det(fin.transform))

\* the round trip through a rotation with a non-uniform scale and a
\* translation, both distances non-zero
C13_Witness ==
    /\ fpc = "dist"
    /\ fin.transform = RotatedScaled
    /\ fin.dx = Frac(1, 3) /\ fin.dy = OfInt(-2)
    /\ fout.pixels = <<Frac(26, 5), Frac(-46, 15)>>
    /\ fout.dist = <<Frac(1, 3), OfInt(-2)>>

\* the anchor a vertical and a horizontal name stand for
AnchorX(r, pad, h) ==
    IF h = left THEN XAdd(r.x, pad[1])
    ELSE IF h = right THEN XSub(XAdd(r.x, r.dx), pad[1])
    ELSE XAdd(r.x, XDiv(r.dx, OfInt(2)))

AnchorY(r, pad, v) ==
    IF v = bottom THEN XAdd(r.y, pad[2])
    ELSE IF v = top THEN XSub(XAdd(r.y, r.dy), pad[2])
    ELSE XAdd(r.y, XDiv(r.dy, OfInt(2)))

\* the call returned the anchor and the alignments of the names v and h
Anchored(v, h) ==
    /\ fpc = "returned"
    /\ fout.x = AnchorX(fin.rect, fin.pad, h) /\ fout.y = AnchorY(fin.rect, fin.pad, v)
    /\ fout.ha = h /\ fout.va = v

\* a keyword names its sides: the long form, the two-letter form or plain
\* center
Names(pos, v, h) ==
    \/ pos = v \o <<" ">> \o h
    \/ pos = <<v[1], h[1]>>
    \/ pos \in PlainForms /\ v = center /\ h = center

Keywords == LongForms \cup ShortForms \cup PlainForms

\* C15 as stated: a placement keyword gives the anchor and the alignments it
\* names, and every other string is rejected with an invalid-placement error.
C15_Original ==
    fpc # "ready" =>
        /\ \A v \in Vertical, h \in Horizontal : Names(fin.pos, v, h) => Anchored(v, h)
        /\ fin.pos \notin Keywords => fpc = "raised"

\* the words of a string with 'centre' read as 'center'
American(words) == [i \in 1..Len(words) |-> IF words[i] = centre THEN center ELSE words[i]]

\* a string of more than two characters whose two words, whatever whitespace
\* separates them and with 'centre' for 'center', are the names v and h
NamesLoosely(pos, v, h) ==
    /\ Len(pos) # 2 /\ pos \notin PlainForms
    /\ American(str_split(pos)) = <<v, h>>

\* C15: get_position maps a placement keyword (long form, two-letter form,
\* plain center) to the anchor point and the alignments it names; a string
\* whose two whitespace-separated words are a vertical and a horizontal name,
\* 'centre' standing for 'center', is accepted as that keyword; every other
\* string is rejected with ValueError and no position is returned.
C15_Placement ==
    fpc # "ready" =>
        /\ \A v \in Vertical, h \in Horizontal :
              (Names(fin.pos, v, h) \/ NamesLoosely(fin.pos, v, h)) => Anchored(v, h)
        /\ (\A v \in Vertical, h \in Horizontal :
                ~Names(fin.pos, v, h) /\ ~NamesLoosely(fin.pos, v, h))
           => fpc = "raised" /\ ~fout.ok

\* 'top left' in the rectangle (2, 1, 3, 5) with the pads (1/2, 1/4): the
\* anchor is (5/2, 23/4)
C15_Witness ==
    /\ fpc = "returned"
    /\ fin.pos = top \o <<" ">> \o left
    /\ fin.rect = Rect(OfInt(2), One, OfInt(3), OfInt(5))
    /\ fin.pad = <<Frac(1, 2), Frac(1, 4)>>
    /\ fout.x = Frac(5, 2) /\ fout.y = Frac(23, 4)
    /\ fout.ha = left /\ fout.va = top

RECURSIVE LinesMeasured(_)
\* the lines the candidates measure: each line of a candidate once for its
\* width (line 282) and once for its gap (line 231)
LinesMeasured(cands) ==
    IF cands = <<>> THEN 0
    ELSE 2 * Len(Head(cands).lines) + LinesMeasured(Tail(cands))

\* the text measurements of a wrap call: the bounding box of line 64, the
\* lines of the candidates and the bounding box of the outline (line 95)
Measurements == 1 + LinesMeasured(CallCandidates) + (IF call.show_rect THEN 1 ELSE 0)

\* the wrap search of the last call ran to its end
Searched ==
    /\ call.wrap
    /\ pc = "returned" \/ (pc = "raised" /\ err = "EmptySequence")

\* C20: in wrap mode the search evaluates one candidate for each line count
\* n = 2, 3, ..., wordCount, in ascending order of n, and then ends; a
\* candidate of n has at most 2n + 1 lines, so that a call on w >= 2 words
\* takes at most 2w^2 + 4w - 4 text measurements.
C20_CandidatesPerLineCount ==
    Searched =>
        LET w == Len(split_words(call.text0))
        IN  /\ Len(CallCandidates) = IMax(w - 1, 0)
            /\ \A i \in 1..Len(CallCandidates) :
                  /\ CallCandidates[i].n = i + 1
                  /\ Len(CallCandidates[i].lines) <= 2 * CallCandidates[i].n + 1
            /\ pc = "returned" => \E i \in 1..Len(CallCandidates) : chosen = CallCandidates[i]
            /\ w >= 2 => Measurements <= 2 * w * w + 4 * w - 4
            /\ w < 2 => Measurements <= 2

\* a wrap call on three words: the candidates of two and of three lines
C20_Witness ==
    /\ Searched /\ pc = "returned"
    /\ Len(split_words(call.text0)) = 3
    /\ Len(CallCandidates) = 2
    /\ CallCandidates[1].n = 2 /\ CallCandidates[2].n = 3
    /\ Len(CallCandidates[2].lines) = 3

\* the row of a key in a data frame has its rectangle
Assigned(df, key) == \E j \in 1..Len(df) : df[j].key = key /\ Len(df[j].rect) = 1

\* every group of the layout has a rectangle, and no group was laid out by
\* two calls
AllAssignedOnce ==
    /\ \A lvl \in 1..Len(data) : \A j \in 1..Len(data[lvl]) :
          /\ Len(data[lvl][j].rect) = 1
          /\ \E c \in calls : c.level = lvl /\ \E k \in 1..Len(c.df) : c.df[k].key = data[lvl][j].key
    /\ \A c1, c2 \in calls :
          (c1.level = c2.level /\ \E k1 \in 1..Len(c1.df), k2 \in 1..Len(c2.df) :
                                     c1.df[k1].key = c2.df[k2].key) => c1 = c2

\* a step of the layout: the rows a new call lays out have no rectangle yet
\* and, below the root, their parent and its whole level have theirs; a
\* rectangle that is assigned stays as it is
StepByLevel ==
    /\ \A c \in calls' \ calls :
          /\ \A k \in 1..Len(c.df) :
                \E j \in 1..Len(data[c.level]) :
                    data[c.level][j].key = c.df[k].key /\ data[c.level][j].rect = <<>>
          /\ c.level > 1 =>
                /\ Assigned(data[c.level - 1], c.parent)
                /\ \A j \in 1..Len(data[c.level - 1]) : Len(data[c.level - 1][j].rect) = 1
    /\ \A lvl \in 1..Len(data) : \A j \in 1..Len(data[lvl]) :
          Len(data[lvl][j].rect) = 1 => data'[lvl][j] = data[lvl][j]

\* C17: the layout goes level by level from the root: when a child group of
\* level i is laid out its parent at level i-1 has its rectangle, and when
\* squarify_subgroups has finished every group of every level has been
\* assigned a rectangle exactly once.
C17_LevelByLevel ==
    /\ [](lpc = "returned" => AllAssignedOnce)
    /\ [][StepByLevel]_vars

\* a finished layout of two levels with two parents: the root call and one
\* call for the children of either parent
C17_Witness ==
    /\ lpc = "returned" /\ args.levels = 2
    /\ Cardinality(calls) = 3
    /\ Len(data[1]) = 2 /\ Len(data[2]) = 3
    /\ AllAssignedOnce

\* the columns of the input: an array has none
Columns == IF input.kind = "DataFrame" THEN input.columns ELSE {}

\* a source names a column that the input does not have
NamesAbsent(source) == source.kind = "str" /\ source.name \notin Columns

\* an array of another length than the records
WrongLength(source) == source.kind = "array" /\ source.len # Len(input.records)

\* (a) tabular input without an area source, (b) a named level, weight, label
\* or fill column that is absent from the input, (c) an array-valued weight,
\* label or fill of another length than the records; the weights of an array
\* input are the array itself
Malformed ==
    \/ input.kind = "DataFrame" /\ input.area.kind = "None"
    \/ \E i \in 1..args.levels : LevelNames[i] \notin Columns
    \/ input.kind = "DataFrame" /\ (NamesAbsent(input.area) \/ WrongLength(input.area))
    \/ NamesAbsent(input.labels) \/ NamesAbsent(input.fill)
    \/ WrongLength(input.labels) \/ WrongLength(input.fill)

\* the build failed in get_plot_data: no row was projected, the limits of the
\* axes are untouched and nothing is drawn
FailedInProjection ==
    /\ lpc = "raised" /\ lerr \in {"TypeError", "KeyError", "ValueError"}
    /\ plot_data = <<>> /\ data = <<>>
    /\ xlim = <<>> /\ artists = <<>> /\ tr_container = NoArtists

\* C14 as stated: a build on a malformed input fails during the projection of
\* the input, before the limits of the axes change and before anything is
\* drawn.
C14_Original == (Malformed /\ lpc # "project") => FailedInProjection

\* the malformed inputs get_plot_data rejects: of a DataFrame those of (a),
\* (b) and (c); of an array a label or fill source that names a column or has
\* another length
RejectedByProjection ==
    \/ input.kind = "DataFrame" /\ Malformed
    \/ input.kind = "array" /\
          (input.labels.kind = "str" \/ input.fill.kind = "str"
           \/ WrongLength(input.labels) \/ WrongLength(input.fill))

\* the build failed in the groupby of get_subgroups, before the limits of the
\* axes change and before anything is drawn
FailedInGrouping ==
    /\ lpc = "raised" /\ lerr = "KeyError"
    /\ plot_data # <<>> /\ data = <<>>
    /\ xlim = <<>> /\ artists = <<>> /\ tr_container = NoArtists

\* C14: a build fails during the projection of the input when, for a
\* DataFrame, (a) no area source is given, (b) a named level, weight, label
\* or fill column is absent or (c) an array-valued weight, label or fill has
\* another length than the records, and when, for an array, labels or fill
\* names a column or is an array of another length.  Levels named for an
\* array make the build fail later, in the grouping step.  In every case the
\* limits of the axes are unchanged and nothing is drawn.
C14_MalformedInput ==
    /\ (RejectedByProjection /\ lpc # "project") => FailedInProjection
    /\ (input.kind = "array" /\ args.levels > 0 /\ ~RejectedByProjection
        /\ lpc \notin {"project", "start"}) => FailedInGrouping
    /\ lpc = "raised" => (xlim = <<>> /\ artists = <<>>)

\* a DataFrame with its columns and its area, and labels of one value too
\* many: ValueError out of get_plot_data
C14_Witness ==
    /\ FailedInProjection /\ lerr = "ValueError"
    /\ input.kind = "DataFrame" /\ input.columns = AllColumns
    /\ input.area = [kind |-> "str", name |-> "w"]
    /\ WrongLength(input.labels)
    /\ input.fill.kind = "None"

\* the records of the projected data whose key starts with the prefix
Members(prefix) == {i \in 1..Len(plot_data) : Prefix(plot_data[i].key, Len(prefix)) = prefix}

RECURSIVE Total(_, _)
\* the total of the weights of a frame over a set of its rows
Total(df, S) ==
    IF S = {} THEN 0
    ELSE LET i == CHOOSE i \in S : TRUE IN df[i].area + Total(df, S \ {i})

\* the first of a non-empty set of places
First(S) == CHOOSE i \in S : \A j \in S : i <= j

\* the groups of depth d: one for every distinct prefix of that length, with
\* the summed weight (1 for a root group when split is on) and the label and
\* the fill of the first record of the prefix
Aggregated(d) ==
    /\ {data[d][g].key : g \in 1..Len(data[d])} =
           {Prefix(plot_data[i].key, d) : i \in 1..Len(plot_data)}
    /\ \A g, h \in 1..Len(data[d]) : data[d][g].key = data[d][h].key => g = h
    /\ \A g \in 1..Len(data[d]) :
          /\ data[d][g].area = IF args.split /\ d = 1 THEN 1
                               ELSE Total(plot_data, Members(data[d][g].key))
          /\ data[d][g].label = plot_data[First(Members(data[d][g].key))].label
          /\ data[d][g].fill = plot_data[First(Members(data[d][g].key))].fill

\* the weight of a group is the sum of the weights of its child groups
SumsChildren(d) ==
    \A g \in 1..Len(data[d]) :
        data[d][g].area =
            Total(data[d + 1], {c \in 1..Len(data[d + 1]) :
                                   Prefix(data[d + 1][c].key, d) = data[d][g].key})

\* C16: for every depth d get_subgroups makes one group per distinct key
\* prefix of length d, its weight the sum of the weights of the records of
\* the prefix, its label and fill those of the first such record; when split
\* is off the weight of a group is the sum of the weights of its child groups
\* at depth d + 1.
C16_Aggregation ==
    (args.levels > 0 /\ data # <<>>) =>
        /\ Len(data) = args.levels
        /\ \A d \in 1..args.levels : Aggregated(d)
        /\ ~args.split => \A d \in 1..(args.levels - 1) : SumsChildren(d)

\* two records of one root group given in the reverse order of their keys,
\* with labels and a fill: the group has the label and the fill of the first
\* record and the weight 3
C16_Witness ==
    /\ args.levels = 2 /\ ~args.split /\ data # <<>>
    /\ Len(plot_data) = 2
    /\ plot_data[1].key = <<1, 1>> /\ plot_data[2].key = <<1, 0>>
    /\ plot_data[1].fill = <<"B">> /\ plot_data[2].fill = <<"A">>
    /\ plot_data[1].area = 2
    /\ Len(data[1]) = 1 /\ Len(data[2]) = 2
    /\ data[1][1].area = 3 /\ data[1][1].label = <<1>> /\ data[1][1].fill = <<"B">>

\* the rectangles among the artists of the axes
Rectangles == SelectSeq(artists, LAMBDA a : "rect" \in DOMAIN a)

\* the leaf level: the last of the levels, or the one group of levels=None
LeafLevel == Len(data)

\* the levels a mapping of the container has an entry for, in order
KeysOf(mapping) == [n \in 1..Len(mapping) |-> mapping[n].level]

\* the levels with drawn rectangles
DrawnLevels == {Rectangles[n].level : n \in 1..Len(Rectangles)}

\* level k is drawn with one rectangle for each of its groups
DrawnOnce(k) ==
    \A g \in 1..Len(data[k]) :
        Cardinality({n \in 1..Len(Rectangles) :
                        Rectangles[n].level = k /\ Rectangles[n].key = data[k][g].key}) = 1

\* C18: a build draws one rectangle for every group of the leaf level, draws
\* the groups of a non-leaf level if and only if subgroup_rectprops names the
\* level, and draws no rectangle twice; the patches, texts and handles of the
\* returned container have the same keys, the drawn levels.
C18_DrawDispatch ==
    lpc = "done" =>
        /\ LeafLevel \in DrawnLevels /\ DrawnOnce(LeafLevel)
        /\ \A k \in 1..(LeafLevel - 1) :
              /\ k \in DrawnLevels <=> k \in opts.subgroup_rectprops
              /\ k \in DrawnLevels => DrawnOnce(k)
        /\ \A n, o \in 1..Len(Rectangles) :
              (Rectangles[n].level = Rectangles[o].level
               /\ Rectangles[n].key = Rectangles[o].key) => n = o
        /\ KeysOf(tr_container.patches) = KeysOf(tr_container.texts)
        /\ KeysOf(tr_container.patches) = KeysOf(tr_container.handles)
        /\ {tr_container.patches[n].level : n \in 1..Len(tr_container.patches)} = DrawnLevels
        /\ \A n, o \in 1..Len(tr_container.patches) :
              tr_container.patches[n].level = tr_container.patches[o].level => n = o

\* a finished build of two levels with the root level requested: the two
\* root groups and the three leaves are drawn, five rectangles
C18_Witness ==
    /\ lpc = "done" /\ args.levels = 2
    /\ opts.subgroup_rectprops = {1}
    /\ Len(data[1]) = 2 /\ Len(data[2]) = 3
    /\ Len(Rectangles) = 5
    /\ KeysOf(tr_container.patches) = <<1, 2>>

\* the rectangles with a fill category
Filled == SelectSeq(Rectangles, LAMBDA a : a.fill # <<>>)

\* C19: the fill colours are stable per category within one build: any two
\* drawn rectangles of the same fill category have the same colour, at every
\* drawn level, and with a list of colours the i-th distinct category of a
\* level has the colour i mod the length of the list.
C19_StableColours ==
    /\ \A n, o \in 1..Len(Filled) :
          Filled[n].fill = Filled[o].fill => Filled[n].color = Filled[o].color
    /\ opts # <<>> /\ opts.cmap.kind = "list" =>
          \A n \in 1..Len(Filled) :
              LET cats == Unique(FillColumn(data[Filled[n].level]))
                  i == (CHOOSE i \in 1..Len(cats) : cats[i] = Filled[n].fill[1]) - 1
              IN  Filled[n].color = <<opts.cmap.colors[(i % Len(opts.cmap.colors)) + 1]>>
(***************************************************************************)
(* The wrap candidates of a call, one by one.                              *)
(***************************************************************************)
\* the words of the lines, in the order of the lines
RECURSIVE WordsOfLines(_)
WordsOfLines(lines) ==
    IF lines = <<>> THEN <<>> ELSE split_words(Head(lines)) \o WordsOfLines(Tail(lines))

\* max(longestWordLength, totalLength / n), the quotient taken as line 208 does
TargetWidth(txt, n) == IMax(MaxLen(split_words(txt)), Len(txt) \div n)

\* no line is longer than the target width
WithinTarget(txt, cand) ==
    \A i \in 1..Len(cand.lines) : Len(cand.lines[i]) <= TargetWidth(txt, cand.n)

\* every word of the text stands whole on one line
WordsWhole(txt, cand) == WordsOfLines(cand.lines) = split_words(txt)

\* C21: every wrap candidate has its lines within the target width
\* max(longestWordLength, totalLength / n), and no word of split_words is
\* split across two lines.
C21_WrapKeepsWords ==
    (pc = "returned" /\ call.wrap) =>
        \A i \in 1..Len(CallCandidates) :
            /\ WithinTarget(call.text0, CallCandidates[i])
            /\ WordsWhole(call.text0, CallCandidates[i])

\* boxHeightPx / (n * linespacing - linespacing + 1), from pixels to points
\* by the factor 72 / dpi
HeightBound(n) ==
    RMul(RDiv(fin.height_in_pixels,
              RAdd(RSub(RMul(OfInt(n), txtobj.linespacing), txtobj.linespacing), One)),
         Frac(PointsPerInch, txtobj.dpi))

\* the height bound of the candidate in hand has been computed
HeightKnown == fpc \in {"gap", "return"}

\* C22 as stated: the height bound of a candidate is that of the line count
\* n requested for it.
C22_Original == HeightKnown => fout.h_fontsize = HeightBound(fin.line_num)

\* C22 (amended): the height bound of a candidate is
\* boxHeightPx / (k * linespacing - linespacing + 1) converted from pixels to
\* points by the factor 72 / dpi, k being the number of lines the wrapped
\* text of the candidate has.
C22_HeightBound == HeightKnown => fout.h_fontsize = HeightBound(Len(fout.wrap_txt))

\* two lines requested, three wrapped: 50 px / (3 * 1.2 - 1.2 + 1) at 144 dpi
C22_Witness ==
    /\ HeightKnown
    /\ fin.line_num = 2 /\ Len(fout.wrap_txt) = 3
    /\ fin.height_in_pixels = OfInt(25)
    /\ fout.h_fontsize = Frac(125, 34)
    /\ fout.h_fontsize # HeightBound(fin.line_num)

\* the width of a line of the candidate in hand at a font size, in pixels
WidthAt(i, size) == LineWidth(fout.wrap_txt[i], size, txtobj.dpi, FontProperties)

\* referenceSize * boxWidthPx / measuredLineWidth, the line measured at the
\* reference size
ScaleOfLine(i) ==
    RDiv(RMul(FontProperties.size, fin.width_in_pixels), WidthAt(i, FontProperties.size))

\* the minimum of the scales over the wrapped lines
IsWidthBound(w) ==
    /\ \E i \in 1..Len(fout.wrap_txt) : w = ScaleOfLine(i)
    /\ \A i \in 1..Len(fout.wrap_txt) : RLe(w, ScaleOfLine(i))

\* the size of the candidate in hand
CandidateSize == RMin(fout.h_fontsize, fout.w_fontsize)

\* the candidate in hand is complete (line 222)
CandidateKnown == fpc = "return"

\* the candidate that was appended last is the one in hand
Appended ==
    /\ pc = "loop" /\ fpc = "idle" /\ fin.fontsizes # <<>>
    /\ fin.fontsizes[Len(fin.fontsizes)].lines = fout.wrap_txt

Container(c) == Rect(c.x, c.y, c.dx, c.dy)

\* the calls that laid out the children of a parent
ChildCalls == {c \in calls : c.level >= 2}

\* the first key of the children a call laid out
FirstKey(c) == c.df[1].key[c.level]

\* the key of the synthetic group: the empty string put for a missing value
EmptyKey(key) == key = 0

\* C24: the children of every parent are laid out in the parent rectangle
\* inset by pad_left, pad_right, pad_top and pad_bottom; the inset is
\* skipped only for a child group whose first key is empty, and then for all
\* the children of that parent.
C24_InterLevelPadding ==
    \A c \in ChildCalls :
        \E parent_rect \in {ParentRect(data[c.level - 1], c.parent)} :
            Container(c) = IF EmptyKey(FirstKey(c)) THEN parent_rect
                           ELSE Inset(parent_rect, get_surrounding_pad(args.pad))

\* the rectangles assigned so far, at every level
AssignedRects ==
    UNION {{data[lvl][j].rect[1] : j \in {k \in 1..Len(data[lvl]) : data[lvl][k].rect # <<>>}} :
           lvl \in 1..Len(data)}

\* the weights of the rows are positive
PositiveWeights == \A i \in 1..Len(plot_data) : plot_data[i].area > 0

\* C25: every rectangle the layout assigns has width >= 0 and height >= 0,
\* at every level and for every padding; a padding as large as the parent
\* or larger gives the children degenerate rectangles and the layout does
\* not fail.  (Stated for positive weights, the other weights being the
\* subject of C12.)
C25_NonNegativeRects ==
    PositiveWeights =>
        /\ \A r \in AssignedRects : XGe(r.dx, Zero) /\ XGe(r.dy, Zero)
        /\ lerr # "ZeroDivisionError"

(***************************************************************************)
(* Split mode.                                                             *)
(***************************************************************************)
\* a treemap of levels with split=True whose rows are grouped
SplitGrouped == args.split /\ args.levels >= 1 /\ lpc \notin {"start", "raised"} /\ data # <<>>

\* the call that laid out the root level
RootCalls == {c \in calls : c.level = 1}

\* the weights of the groups: 1 at the root, the sums of the rows below
SplitWeights ==
    /\ \A g \in 1..Len(data[1]) : data[1][g].area = 1
    /\ \A d \in 2..Len(data) : \A g \in 1..Len(data[d]) :
          data[d][g].area = SumArea(plot_data, data[d][g].key)

\* the padded layout at the root and nowhere else
PaddedAtRootOnly ==
    /\ \A c \in RootCalls : c.split
    /\ \A c \in ChildCalls : ~c.split

\* the cells of k equal shares of the container
EqualCells(k) ==
    squarify(normalize_sizes([i \in 1..k |-> One], args.norm_x, args.norm_y),
             Zero, Zero, args.norm_x, args.norm_y)

\* the rectangles of the root groups are the equal cells, each shrunk by
\* pad_rectangle
PaddedEqualCells(c) ==
    \E cells \in {EqualCells(Len(c.df))} :
        /\ cells.ok
        /\ \A i \in 1..Len(cells.rects) :
              Area(cells.rects[i]) = RDiv(RMul(args.norm_x, args.norm_y), OfInt(Len(c.df)))
        /\ {c.df[j].rect[1] : j \in 1..Len(c.df)} =
              {pad_rectangle(cells.rects[i]) : i \in 1..Len(cells.rects)}

\* C26 as stated: with split=True the root groups have the weight 1 and are
\* allocated equal areas, the deeper groups keep their summed weights, and
\* the padded layout is used for the root level only.
C26_Original ==
    SplitGrouped =>
        /\ SplitWeights
        /\ PaddedAtRootOnly
        /\ \A c \in RootCalls : c.ok =>
              \A i, j \in 1..Len(c.df) : Area(c.df[i].rect[1]) = Area(c.df[j].rect[1])

\* C26 (amended): with split=True the root groups have the weight 1, so the
\* layout divides the container into cells of equal areas, and the rectangle
\* of a root group is its cell shrunk by the padded layout, which need not
\* leave equal areas; the deeper groups keep their summed weights, and the
\* padded layout is used for the root level only.
C26_SplitMode ==
    SplitGrouped =>
        /\ SplitWeights
        /\ PaddedAtRootOnly
        /\ \A c \in RootCalls : c.ok => PaddedEqualCells(c)

\* three root groups in a square of side 6: the cells 4 x 3, 4 x 3 and 2 x 6
\* of area 12 become rectangles of the areas 2, 2 and 8; a group of the second
\* level keeps the weight 2
C26_Witness ==
    /\ SplitGrouped
    /\ args.levels = 2
    /\ Len(data[1]) = 3
    /\ \E c \in RootCalls :
          /\ c.ok
          /\ {Area(c.df[j].rect[1]) : j \in 1..Len(c.df)} = {OfInt(2), OfInt(8)}
    /\ \E g \in 1..Len(data[2]) : data[2][g].area = 2
    /\ \E c \in ChildCalls : ~c.split

(***************************************************************************)
(* The whole call again.                                                   *)
(***************************************************************************)
\* a wrap call on an axis-aligned text with a box that is accepted
WrapCall ==
    /\ pc # "ready" /\ call.wrap
    /\ txtobj.rotation % 90 = 0
    /\ ~RLt(call.width, Zero) /\ ~RLt(call.height, Zero)

\* C27: autofit with wrap on an axis-aligned text completes for every text;
\* a text of fewer than two words has no wrap candidate, and the call
\* returns the no-wrap result with the content unchanged.
C27_WrapCompletes ==
    WrapCall =>
        /\ pc = "returned"
        /\ Len(split_words(call.text0)) < 2 =>
              txtobj.text = call.text0 /\ txtobj.fontsize = ScaledSize

(***************************************************************************)
(* The search step by step.                                                *)
(***************************************************************************)
\* the call has entered the search of lines 69-78
Searching == pc = "loop"

\* the font object has the size at which the last measurement was to be made
FontAsSet ==
    /\ fpc = "height" => font = [size |-> FontProperties.size, dpi |-> txtobj.dpi]
    /\ fpc = "return" => font = [size |-> CandidateSize, dpi |-> txtobj.dpi]

\* C28: the size of the shared font object is set before every measurement
\* that reads it, so the result (size, lines, gap) of a candidate depends
\* only on the text, the box, the line spacing, the dpi and the font
\* properties: it is the value of get_wrapped_fontsize on these, whatever
\* size the font object was left at by earlier candidates and earlier calls;
\* the size and the content of the text are not changed while candidates
\* are evaluated.
C28_Reproducible ==
    /\ FontAsSet
    /\ fin # <<>> =>
          \A i \in 1..Len(fin.fontsizes) :
              fin.fontsizes[i] =
                  get_wrapped_fontsize(call.text0, CallHeightPx, CallWidthPx, i + 1,
                                       txtobj.linespacing, txtobj.dpi, CallFontprops)
    /\ Searching => txtobj.text = call.text0 /\ txtobj.fontsize = call.fontsize0

\* the second candidate is measured after the first one left the font object
\* at another size than the reference size
C28_Witness ==
    /\ Searching /\ fpc = "idle"
    /\ Len(fin.fontsizes) = 2
    /\ fin.fontsizes[1].size # FontProperties.size
    /\ RLt(Zero, fin.fontsizes[2].size)
    /\ font.size = fin.fontsizes[2].size
    /\ fin.fontsizes[2].gap # fin.fontsizes[1].gap

(***************************************************************************)
(* The margins of a label.                                                 *)
(***************************************************************************)
\* the logical distance that a margin in points spans along an axis of
\* scale many pixels per unit
SpanOf(margin, scale) ==
    RDiv(RMul(margin, Frac(fin.dpi, PointsPerInch)), scale)

\* C29: the horizontal inset of a label is the logical distance marginx
\* points span along the x axis of the data transform, and the vertical
\* inset the logical distance marginy points span along the y axis.
C29_InsetsPerAxis ==
    fpc = "placed" =>
        /\ fout.offsetx = <<SpanOf(fin.marginx, fin.transData.a)>>
        /\ fout.offsety = <<SpanOf(fin.marginy, fin.transData.d)>>

====
